---- MODULE Spec2Model ----
(***************************************************************************)
(* Media ingestion and object lifecycle of the uploads service:            *)
(* uploadFile, searchFiles, getFileById, deleteFile and bulkDeleteFiles of *)
(* upload.controller.ts, the helpers of utils/upload.ts and the object     *)
(* store gateway of s3-object-store.ts.                                    *)
(*                                                                         *)
(* Strings are sequences of tokens.  A token is either a delimiter         *)
(* character ("/", "-", ".") or a run of characters holding no delimiter.  *)
(* Every handler is cut at its awaits on the metadata store and on the     *)
(* object store: each such call is one atomic step, and steps of           *)
(* different requests interleave.                                          *)
(***************************************************************************)
EXTENDS Integers, Sequences, FiniteSets, TLC

VARIABLES
  db,         \* the metadata store: the set of FileMetadata documents
  store,      \* the object store: the set of [bucket, key] objects held
  pc,         \* per request slot: the await the handler stands at
  req,        \* per request slot: the handler's inputs, locals and response
  wrote,      \* history: per inserted document, the keys its upload wrote
  nextId,     \* the next _id the metadata store assigns
  nextUuid,   \* the number of the next uuidv4() call
  started,    \* requests started so far
  clock,      \* the day new Date() reports, an index of Dates
  bulkBucket, \* the value of process.env.S3_BUCKET_NAME
  tmpFiles,   \* os.tmpdir(): the set of [path, by] files, by the creating call
  millis      \* the millisecond Date.now() reports, an index of Instants

vars == <<db, store, pc, req, wrote, nextId, nextUuid, started, clock, bulkBucket, tmpFiles, millis>>

(***************************************************************************)
(* Bounds of the model.                                                    *)
(***************************************************************************)
MaxUploads == 2
MaxRequests == 3
MaxCatalogue == 4
MaxIngests == 2
MaxProbes == 3
MaxClassified == 2
MaxPurges == 4

(***************************************************************************)
(* Program constants.                                                      *)
(***************************************************************************)
\* Fault: the size limit one byte short of 100 MiB.
MaxFileSizeOneShort == 104857600 - 1

MAX_FILE_SIZE == 104857600
MAX_WIDTH == 720
MAX_HEIGHT == 720
MAX_BULK_DELETE == 100
chunkSize == 1000
DefaultPage == 1
DefaultLimit == 20
MaxLimit == 100

(***************************************************************************)
(* String helpers: String.prototype.split, Array.prototype.join,           *)
(* startsWith, toLowerCase, and a case-insensitive substring test.         *)
(***************************************************************************)
RECURSIVE Split(_, _)
Split(s, c) ==
  IF \E i \in 1..Len(s) : s[i] = c
  THEN LET i == CHOOSE k \in 1..Len(s) : s[k] = c /\ \A j \in 1..(k-1) : s[j] # c
       IN  <<SubSeq(s, 1, i-1)>> \o Split(SubSeq(s, i+1, Len(s)), c)
  ELSE <<s>>

RECURSIVE Join(_, _)
Join(parts, c) ==
  IF Len(parts) = 0 THEN <<>>
  ELSE IF Len(parts) = 1 THEN parts[1]
  ELSE parts[1] \o <<c>> \o Join(Tail(parts), c)

StartsWith(s, prefix) ==
  /\ Len(s) >= Len(prefix)
  /\ SubSeq(s, 1, Len(prefix)) = prefix

LowerToken(t) ==
  CASE t = "JPG" -> "jpg"
    [] t = "PNG" -> "png"
    [] t = "MP4" -> "mp4"
    [] t = "Holiday" -> "holiday"
    [] OTHER -> t

ToLowerCase(s) == [i \in 1..Len(s) |-> LowerToken(s[i])]

Contains(s, sub) ==
  \E i \in 0..(Len(s) - Len(sub)) : SubSeq(s, i+1, i+Len(sub)) = sub

(***************************************************************************)
(* getFileType (utils/upload.ts): the category of a MIME type and filename.*)
(***************************************************************************)
ImageExts == {"jpg", "jpeg", "png", "gif", "webp", "bmp", "tiff", "svg"}
VideoExts == {"mp4", "avi", "mov", "wmv", "flv", "webm", "mkv", "3gp"}
AudioExts == {"mp3", "wav", "ogg", "flac", "aac", "m4a", "wma"}
DocumentExts == {"pdf", "doc", "docx", "txt", "rtf", "xls", "xlsx", "ppt", "pptx"}

\* filename.toLowerCase().split('.').pop(): the last dot-separated part.
\* A part of several tokens (it holds "-" or "/") is no listed extension.
FileExt(filename) ==
  LET parts == Split(ToLowerCase(filename), ".")
      last  == parts[Len(parts)]
  IN  IF Len(last) = 1 THEN last[1] ELSE ""

\* Fault: the extension table is consulted before the MIME prefixes.
getFileTypeExtensionFirst(mimeType, filename) ==
  LET ext == IF filename # <<>> THEN FileExt(filename) ELSE ""
  IN  IF ext \in ImageExts THEN "image"
      ELSE IF ext \in VideoExts THEN "video"
      ELSE IF ext \in AudioExts THEN "audio"
      ELSE IF ext \in DocumentExts THEN "document"
      ELSE IF StartsWith(mimeType, <<"image", "/">>) THEN "image"
      ELSE IF StartsWith(mimeType, <<"video", "/">>) THEN "video"
      ELSE IF StartsWith(mimeType, <<"audio", "/">>) THEN "audio"
      ELSE IF \/ StartsWith(mimeType, <<"application", "/", "pdf">>)
              \/ StartsWith(mimeType, <<"application", "/", "msword">>)
              \/ StartsWith(mimeType, <<"application", "/", "vnd", ".", "openxmlformats">>)
              \/ StartsWith(mimeType, <<"text", "/">>)
      THEN "document"
      ELSE "other"

getFileType(mimeType, filename) ==
  IF StartsWith(mimeType, <<"image", "/">>) THEN "image"
  ELSE IF StartsWith(mimeType, <<"video", "/">>) THEN "video"
  ELSE IF StartsWith(mimeType, <<"audio", "/">>) THEN "audio"
  ELSE IF mimeType = <<"application", "/", "octet", "-", "stream">> /\ filename # <<>>
  THEN LET ext == FileExt(filename)
       IN  IF ext \in ImageExts THEN "image"
           ELSE IF ext \in VideoExts THEN "video"
           ELSE IF ext \in AudioExts THEN "audio"
           ELSE IF ext \in DocumentExts THEN "document"
           ELSE "other"
  ELSE IF \/ StartsWith(mimeType, <<"application", "/", "pdf">>)
          \/ StartsWith(mimeType, <<"application", "/", "msword">>)
          \/ StartsWith(mimeType, <<"application", "/", "vnd", ".", "openxmlformats">>)
          \/ StartsWith(mimeType, <<"text", "/">>)
  THEN "document"
  ELSE "other"

(***************************************************************************)
(* Uploaded payloads.  A payload is described by what the probing and      *)
(* decoding libraries report about its buffer:                             *)
(*   sniff     MIME type detected by fileTypeFromBuffer, <<>> when none    *)
(*   width, height, duration   as probed by image-size / ffprobe, 0 absent *)
(*   sharpOk   sharp decodes and re-encodes the buffer (a valid image)     *)
(*   poster    ffmpeg extracts a frame from the buffer                     *)
(*   thumb     sharp extracts an embedded thumbnail from the buffer        *)
(***************************************************************************)
Null == [kind |-> "null"]
NoFile == [present |-> FALSE]
NoUser == ""

Mime(a, b) == <<a, "/", b>>
OctetStream == <<"application", "/", "octet", "-", "stream">>

File(name, declared, sniff, size, w, h, dur, sharpOk, poster, thumb) ==
  [present |-> TRUE, originalname |-> name, mimetype |-> declared, sniff |-> sniff,
   size |-> size, width |-> w, height |-> h, duration |-> dur,
   sharpOk |-> sharpOk, poster |-> poster, thumb |-> thumb]

Jpeg == Mime("image", "jpeg")
Png == Mime("image", "png")
Mp4 == Mime("video", "mp4")
Mp3 == Mime("audio", "mpeg")
Pdf == Mime("application", "pdf")

BigImage == File(<<"my", "-", "pic", ".", "JPG">>, Jpeg, Jpeg, 2097152, 1500, 1000, 0, TRUE, FALSE, TRUE)
Video == File(<<"clip", ".", "mp4">>, Mp4, Mp4, 2097152, 1920, 1080, 12, FALSE, TRUE, FALSE)
Audio == File(<<"song", ".", "mp3">>, Mp3, Mp3, 2048, 0, 0, 30, FALSE, FALSE, FALSE)

\* The payloads of the lifecycle specification: one of each stored shape.
LifecycleFiles == {BigImage, Video, Audio}

\* The payloads of the ingestion specification: every branch of uploadFile.
IngestFiles ==
  LifecycleFiles \cup
  { NoFile,
    File(<<"wide", ".", "png">>, Png, Png, 2048, 1000, 500, 0, TRUE, FALSE, TRUE),
    File(<<"tall", ".", "png">>, Png, Png, 2048, 300, 721, 0, TRUE, FALSE, TRUE),
    File(<<"edge", ".", "png">>, Png, Png, 2048, 720, 720, 0, TRUE, FALSE, TRUE),
    File(<<"strip", ".", "png">>, Png, Png, 2048, 10000, 3, 0, TRUE, FALSE, TRUE),
    File(<<"cut", ".", "jpg">>, Jpeg, Jpeg, 2048, 1500, 1000, 0, FALSE, FALSE, FALSE),
    File(<<"raw", ".", "PNG">>, OctetStream, <<>>, 2048, 721, 720, 0, TRUE, FALSE, TRUE),
    File(<<"a", "/", "b", "-", "c", ".", "jpg">>, Jpeg, Jpeg, 2048, 800, 800, 0, TRUE, FALSE, TRUE),
    File(<<"cover", ".", "mp4">>, Mp4, Mp4, 2048, 1920, 1080, 12, FALSE, FALSE, TRUE),
    File(<<"broken", ".", "mp4">>, Mp4, Mp4, 2048, 0, 0, 0, FALSE, FALSE, FALSE),
    File(<<"voice", ".", "bin">>, OctetStream, Mp3, 2048, 0, 0, 30, FALSE, FALSE, FALSE),
    File(<<"paper", ".", "pdf">>, Pdf, Pdf, 2048, 0, 0, 0, FALSE, FALSE, FALSE),
    File(<<"notes", ".", "txt">>, Mime("text", "plain"), <<>>, 2048, 0, 0, 0, FALSE, FALSE, FALSE),
    File(<<"data", ".", "zip">>, OctetStream, <<>>, 2048, 0, 0, 0, FALSE, FALSE, FALSE),
    File(<<"limit", ".", "png">>, Png, Png, MAX_FILE_SIZE, 640, 480, 0, TRUE, FALSE, TRUE),
    File(<<"huge", ".", "mp4">>, Mp4, Mp4, MAX_FILE_SIZE + 1, 1920, 1080, 12, FALSE, TRUE, FALSE) }

(***************************************************************************)
(* extractMediaMetadata: best-effort {mimeType?, width?, height?,          *)
(* duration?}; an absent field is <<>> (mimeType) or 0.                    *)
(***************************************************************************)
extractMediaMetadata(file) ==
  [mimeType |-> file.sniff, width |-> file.width, height |-> file.height,
   duration |-> file.duration]

(***************************************************************************)
(* sharp's resize(720, 720, {fit: 'inside', withoutEnlargement: true}):    *)
(* the axis that limits the scale becomes the bound, the other one is      *)
(* scaled by the same factor and rounded, never below one pixel.           *)
(***************************************************************************)
Max(a, b) == IF a >= b THEN a ELSE b
Min(a, b) == IF a <= b THEN a ELSE b
RoundDiv(a, b) == (2 * a + b) \div (2 * b)

\* Fault: the scale is taken from the width alone.
ResizeToWidth(w, h) ==
  [kind |-> "jpeg", width |-> MAX_WIDTH, height |-> Max(1, RoundDiv(h * MAX_WIDTH, w))]

ResizeInside(w, h) ==
  IF w <= MAX_WIDTH /\ h <= MAX_HEIGHT
  THEN [kind |-> "jpeg", width |-> w, height |-> h]
  ELSE IF w * MAX_HEIGHT >= h * MAX_WIDTH
  THEN [kind |-> "jpeg", width |-> MAX_WIDTH,
        height |-> Max(1, RoundDiv(h * MAX_WIDTH, w))]
  ELSE [kind |-> "jpeg", width |-> Max(1, RoundDiv(w * MAX_HEIGHT, h)),
        height |-> MAX_HEIGHT]

\* Fault: an image exactly at the bound is resized too.
generateImagePreviewInclusive(file) ==
  IF ~file.sharpOk THEN Null
  ELSE IF (file.width # 0 /\ file.width >= MAX_WIDTH)
          \/ (file.height # 0 /\ file.height >= MAX_HEIGHT)
  THEN [kind |-> "jpeg", width |-> Min(file.width, MAX_WIDTH),
        height |-> Min(file.height, MAX_HEIGHT)]
  ELSE Null

\* generateImagePreview: a derivative only for an image over the bound in
\* either axis; null for a small image and when sharp throws.
generateImagePreview(file) ==
  IF ~file.sharpOk THEN Null
  ELSE IF (file.width # 0 /\ file.width > MAX_WIDTH)
          \/ (file.height # 0 /\ file.height > MAX_HEIGHT)
  THEN ResizeInside(file.width, file.height)
  ELSE Null

\* generateVideoPoster: the frame scaled to width 720 ('720x?'), or null.
generateVideoPoster(file) ==
  IF file.poster
  THEN [kind |-> "jpeg", width |-> MAX_WIDTH,
        height |-> Max(1, RoundDiv(file.height * MAX_WIDTH, Max(1, file.width)))]
  ELSE Null

\* extractVideoThumbnail: the embedded thumbnail, or an exception.
Thrown(message) == [kind |-> "throw", message |-> message]

extractVideoThumbnail(file) ==
  IF file.thumb
  THEN ResizeInside(Max(1, file.width), Max(1, file.height))
  ELSE Thrown("Failed to read video thumbnail")

(***************************************************************************)
(* The object key scheme of uploadFile and getS3KeysForFile.               *)
(***************************************************************************)
Owners == {"u1", "u2"}
Dates == << <<"2026", "-", "10", "-", "31">>, <<"2026", "-", "11", "-", "01">> >>
VirtHost == <<"https:", "/", "/", "cdn">>
CompBucket == "comp"
OtherBucket == "legacy"

\* uuidv4(): 8-4-4-4-12 hexadecimal groups joined by "-"; the n-th call's
\* value differs from every earlier one in its first and last groups.
HexGroup(n) == <<"1f0e", "2a9c", "3b7d", "4c6e", "5d5f", "6e4a", "7f3b", "8a2c">>[n]
uuidv4(n) == <<HexGroup(n), "-", "9b1d", "-", "4e2f", "-", "a3c5", "-", HexGroup(n)>>

BaseKey(userId, timestamp) == <<"uploads", "/", userId, "/">> \o timestamp
PrimaryKey(baseKey, fileId, originalname) ==
  baseKey \o <<"/">> \o fileId \o <<"-">> \o originalname
ImagePreviewKey(baseKey, fileId) ==
  baseKey \o <<"/", "preview", "-">> \o fileId \o <<".", "jpg">>
VideoPosterKey(baseKey, fileId) ==
  baseKey \o <<"/", "poster", "-">> \o fileId \o <<".", "jpg">>
UrlOf(key) == VirtHost \o <<"/">> \o key

\* Fault: the derivative key is rebuilt from the first file id ever issued
\* instead of the record's own.
getS3KeysForFileFirstId(file) ==
  LET pathParts == Split(file.s3Key, "/")
      basePath  == Join(SubSeq(pathParts, 1, Len(pathParts) - 1), "/")
  IN  IF file.type = "image" /\ file.preview # <<>> /\ file.preview # file.src
      THEN <<file.s3Key, basePath \o <<"/", "preview", "-">> \o uuidv4(1) \o <<".", "jpg">> >>
      ELSE IF file.type = "video" /\ file.preview # <<>>
      THEN <<file.s3Key, basePath \o <<"/", "poster", "-">> \o uuidv4(1) \o <<".", "jpg">> >>
      ELSE <<file.s3Key>>

getS3KeysForFile(file) ==
  LET pathParts == Split(file.s3Key, "/")
      filename  == pathParts[Len(pathParts)]
      fileId    == Split(filename, "-")[1]
      basePath  == Join(SubSeq(pathParts, 1, Len(pathParts) - 1), "/")
  IN  IF file.type = "image" /\ file.preview # <<>> /\ file.preview # file.src
      THEN <<file.s3Key, basePath \o <<"/", "preview", "-">> \o fileId \o <<".", "jpg">> >>
      ELSE IF file.type = "video" /\ file.preview # <<>>
      THEN <<file.s3Key, basePath \o <<"/", "poster", "-">> \o fileId \o <<".", "jpg">> >>
      ELSE <<file.s3Key>>

(***************************************************************************)
(* Request slots and environments.  An environment names the inputs a      *)
(* specification draws from and the outcomes its store calls may have.     *)
(***************************************************************************)
Procs == {"r1", "r2"}
Idle == [op |-> "none"]
With(r, f, v) == (f :> v) @@ r

Obj(bucket, key) == [bucket |-> bucket, key |-> key]

\* A slot takes a request when it is free: it has handled none yet, or it
\* has answered its last one (whose response stays readable until then).
Begin(p, E) ==
  /\ pc[p] \in {"idle", "done"}
  /\ started < E.requests
  /\ started' = started + 1

\* The handler of slot p answers r.resp and ends.
Finish(p, r) ==
  /\ pc' = [pc EXCEPT ![p] = "done"]
  /\ req' = [req EXCEPT ![p] = r]

Goto(p, label, r) ==
  /\ pc' = [pc EXCEPT ![p] = label]
  /\ req' = [req EXCEPT ![p] = r]

Unauthorized ==
  [status |-> 401, error |-> "UNAUTHORIZED"]
ServerError(message, error) ==
  [status |-> 500, message |-> message, error |-> error]

(***************************************************************************)
(* uploadFile, lines 29-108: the checks, the keys, the probe, the category *)
(* and the derivative; everything before the first object-store call.      *)
(***************************************************************************)
\* The derivative of lines 84-108: a jpeg, Null, or the exception that
\* extractVideoThumbnail throws.
DerivePreview(file, fileType) ==
  IF fileType = "image" THEN generateImagePreview(file)
  ELSE IF fileType = "video"
  THEN IF generateVideoPoster(file) # Null
       THEN generateVideoPoster(file)
       ELSE extractVideoThumbnail(file)
  ELSE Null

PreviewKeyFor(fileType, baseKey, fileId, previewBuffer) ==
  IF previewBuffer = Null THEN <<>>
  ELSE IF fileType = "image" THEN ImagePreviewKey(baseKey, fileId)
  ELSE IF fileType = "video" THEN VideoPosterKey(baseKey, fileId)
  ELSE <<>>

\* Fault: documents let through to storage.
SupportedTypesWithDocument == {"image", "video", "audio", "document"}

SupportedTypes == {"image", "video", "audio"}

UploadStart(p, E) ==
  /\ Begin(p, E)
  /\ \E userId \in E.users, file \in E.files :
       LET r0 == [op |-> "upload", user |-> userId, file |-> file, puts |-> <<>>]
       IN
       IF userId = NoUser
       THEN /\ Finish(p, With(r0, "resp", Unauthorized))
            /\ UNCHANGED nextUuid
       ELSE IF ~file.present
       THEN /\ Finish(p, With(r0, "resp", [status |-> 400, error |-> "NO_FILE"]))
            /\ UNCHANGED nextUuid
       ELSE IF file.size > MAX_FILE_SIZE
       THEN /\ Finish(p, With(r0, "resp", [status |-> 400, error |-> "FILE_TOO_LARGE"]))
            /\ UNCHANGED nextUuid
       ELSE
         /\ nextUuid <= E.uploads
         /\ nextUuid' = nextUuid + 1
         /\ LET timestamp     == Dates[clock]
                fileId        == uuidv4(nextUuid)
                baseKey       == BaseKey(userId, timestamp)
                s3Key         == PrimaryKey(baseKey, fileId, file.originalname)
                meta          == extractMediaMetadata(file)
                finalMimeType == IF meta.mimeType # <<>> THEN meta.mimeType
                                 ELSE file.mimetype
                fileType      == getFileType(finalMimeType, file.originalname)
                previewBuffer == DerivePreview(file, fileType)
                r1 == [op |-> "upload", user |-> userId, file |-> file, puts |-> <<>>,
                       s3Key |-> s3Key, meta |-> meta, finalMimeType |-> finalMimeType,
                       fileType |-> fileType, previewBuffer |-> previewBuffer,
                       previewKey |-> PreviewKeyFor(fileType, baseKey, fileId, previewBuffer),
                       originalUrl |-> <<>>, previewUrl |-> <<>>]
            IN
            IF fileType \notin SupportedTypes
            THEN Finish(p, With(r0, "resp",
                          [status |-> 400, error |-> "UNSUPPORTED_MEDIA_TYPE"]))
            ELSE IF previewBuffer.kind = "throw"
            THEN Finish(p, With(r0, "resp",
                          ServerError("Upload failed", previewBuffer.message)))
            ELSE Goto(p, "putOriginal", r1)
  /\ UNCHANGED <<db, store, wrote, nextId, clock, bulkBucket, tmpFiles, millis>>

\* Fault: a preview object is uploaded for every category, the original
\* standing in where no derivative exists.
PutOriginalThenPreview(p, E) ==
  /\ pc[p] = "putOriginal"
  /\ LET r  == req[p]
         r1 == With(r, "puts", Append(r.puts, r.s3Key))
     IN \E outcome \in E.puts :
          IF outcome = "ok"
          THEN /\ store' = store \cup {Obj(CompBucket, r.s3Key)}
               /\ Goto(p, "putPreview",
                       With(With(r1, "originalUrl", UrlOf(r.s3Key)), "previewKey",
                            IF r.previewKey = <<>> THEN r.s3Key ELSE r.previewKey))
          ELSE /\ store' = store
               /\ Finish(p, With(r1, "resp", ServerError("Upload failed", "S3Error")))
  /\ UNCHANGED <<db, wrote, nextId, nextUuid, started, clock, bulkBucket, tmpFiles, millis>>

\* uploadToS3 of the original, lines 110-128.  The gateway returns null only
\* without S3_COMP_BUCKET_URL, which the validated environment always holds.
PutOriginal(p, E) ==
  /\ pc[p] = "putOriginal"
  /\ LET r  == req[p]
         r1 == With(r, "puts", Append(r.puts, r.s3Key))
     IN \E outcome \in E.puts :
          IF outcome = "ok"
          THEN /\ store' = store \cup {Obj(CompBucket, r.s3Key)}
               /\ LET originalUrl == UrlOf(r.s3Key)
                      r2 == With(r1, "originalUrl", originalUrl)
                  IN IF r.fileType # "audio" /\ r.previewBuffer # Null
                        /\ r.previewKey # <<>>
                     THEN Goto(p, "putPreview", r2)
                     ELSE IF r.fileType = "audio"
                     THEN Goto(p, "insert", With(r2, "previewUrl", originalUrl))
                     ELSE Goto(p, "insert", r2)
          ELSE /\ store' = store
               /\ Finish(p, With(r1, "resp", ServerError("Upload failed", "S3Error")))
  /\ UNCHANGED <<db, wrote, nextId, nextUuid, started, clock, bulkBucket, tmpFiles, millis>>

\* Fault: a failed put of the derivative falls back to the original.
PutPreviewFallsBack(p, E) ==
  /\ pc[p] = "putPreview"
  /\ LET r  == req[p]
         r1 == With(r, "puts", Append(r.puts, r.previewKey))
     IN \E outcome \in E.puts :
          IF outcome = "ok"
          THEN /\ store' = store \cup {Obj(CompBucket, r.previewKey)}
               /\ Goto(p, "insert", With(r1, "previewUrl", UrlOf(r.previewKey)))
          ELSE /\ store' = store
               /\ Goto(p, "insert", r1)
  /\ UNCHANGED <<db, wrote, nextId, nextUuid, started, clock, bulkBucket, tmpFiles, millis>>

\* uploadToS3 of the derivative, lines 120-125.
PutPreview(p, E) ==
  /\ pc[p] = "putPreview"
  /\ LET r  == req[p]
         r1 == With(r, "puts", Append(r.puts, r.previewKey))
     IN \E outcome \in E.puts :
          IF outcome = "ok"
          THEN /\ store' = store \cup {Obj(CompBucket, r.previewKey)}
               /\ Goto(p, "insert", With(r1, "previewUrl", UrlOf(r.previewKey)))
          ELSE /\ store' = store
               /\ Finish(p, With(r1, "resp", ServerError("Upload failed", "S3Error")))
  /\ UNCHANGED <<db, wrote, nextId, nextUuid, started, clock, bulkBucket, tmpFiles, millis>>

\* The document of lines 131-148.
OrElse(a, b) == IF a # <<>> THEN a ELSE b

UploadDoc(r, now) ==
  [filename |-> r.file.originalname,
   mimeType |-> r.finalMimeType,
   type |-> r.fileType,
   size |-> r.file.size,
   s3Key |-> r.s3Key,
   src |-> r.originalUrl,
   preview |-> OrElse(r.previewUrl, r.originalUrl),
   details |-> [src |-> r.originalUrl, width |-> r.meta.width,
                height |-> r.meta.height, duration |-> r.meta.duration,
                preview |-> OrElse(r.previewUrl, r.originalUrl)],
   uploadedBy |-> r.user,
   uploadedAt |-> now]

\* The keys this request has stored: every put issued before the insert
\* succeeded (a failed put ends the request).
KeysWritten(r) == {r.puts[i] : i \in 1..Len(r.puts)}

\* Fault: a failed insert removes the objects the upload wrote.
InsertOneCompensates(p, E) ==
  /\ pc[p] = "insert"
  /\ LET r   == req[p]
         doc == UploadDoc(r, clock)
     IN \E outcome \in E.dbs :
          IF outcome = "ok"
          THEN /\ db' = db \cup {With(doc, "_id", nextId)}
               /\ nextId' = nextId + 1
               /\ wrote' = wrote \cup {[id |-> nextId, owner |-> r.user,
                                        keys |-> KeysWritten(r)]}
               /\ store' = store
               /\ Finish(p, With(r, "resp", [status |-> 201, doc |-> doc, id |-> nextId]))
          ELSE /\ UNCHANGED <<db, nextId, wrote>>
               /\ store' = store \ {Obj(CompBucket, k) : k \in KeysWritten(r)}
               /\ Finish(p, With(r, "resp", ServerError("Upload failed", "MongoError")))
  /\ UNCHANGED <<nextUuid, started, clock, bulkBucket, tmpFiles, millis>>

InsertOne(p, E) ==
  /\ pc[p] = "insert"
  /\ LET r   == req[p]
         doc == UploadDoc(r, clock)
     IN \E outcome \in E.dbs :
          IF outcome = "ok"
          THEN /\ db' = db \cup {With(doc, "_id", nextId)}
               /\ nextId' = nextId + 1
               /\ wrote' = wrote \cup {[id |-> nextId, owner |-> r.user,
                                        keys |-> KeysWritten(r)]}
               /\ Finish(p, With(r, "resp", [status |-> 201, doc |-> doc, id |-> nextId]))
          ELSE /\ UNCHANGED <<db, nextId, wrote>>
               /\ Finish(p, With(r, "resp", ServerError("Upload failed", "MongoError")))
  /\ UNCHANGED <<store, nextUuid, started, clock, bulkBucket, tmpFiles, millis>>

(***************************************************************************)
(* The metadata store's queries.  An id is a positive number when it has   *)
(* the shape of an ObjectId; 0 stands for a malformed id string.           *)
(***************************************************************************)
IsValidObjectId(id) == id > 0

\* Fault: the lookup without the owner scope.
FindAnyOwner(ids, userId) == {d \in db : d._id \in ids}

\* find({_id: {$in: ids}, uploadedBy: userId})
FindOwned(ids, userId) == {d \in db : d._id \in ids /\ d.uploadedBy = userId}

\* A set of documents in the store's natural order (by _id).
RECURSIVE ToArray(_)
ToArray(docs) ==
  IF docs = {} THEN <<>>
  ELSE LET first == CHOOSE d \in docs : \A e \in docs : d._id <= e._id
       IN  <<first>> \o ToArray(docs \ {first})

Range(seq) == {seq[i] : i \in 1..Len(seq)}

(***************************************************************************)
(* deleteFile, lines 304-379.                                              *)
(***************************************************************************)
NotFound == [status |-> 404, error |-> "FILE_NOT_FOUND"]
InvalidFileId == [status |-> 400, error |-> "INVALID_FILE_ID"]

\* Lines 305-339: the checks, findOne scoped by owner, the keys to delete.
DeleteFind(p, E) ==
  /\ Begin(p, E)
  /\ \E userId \in E.users, fileId \in E.ids :
       LET r0 == [op |-> "delete", user |-> userId, fileId |-> fileId]
       IN
       IF userId = NoUser THEN Finish(p, With(r0, "resp", Unauthorized))
       ELSE IF ~IsValidObjectId(fileId) THEN Finish(p, With(r0, "resp", InvalidFileId))
       ELSE \E outcome \in E.dbs :
         IF outcome # "ok"
         THEN Finish(p, With(r0, "resp", ServerError("Delete failed", "MongoError")))
         ELSE LET found == FindOwned({fileId}, userId)
              IN IF found = {}
                 THEN Finish(p, With(r0, "resp", NotFound))
                 ELSE LET file   == CHOOSE d \in found : TRUE
                          s3Keys == getS3KeysForFile(file)
                      IN Goto(p, "deleteObjects",
                              [op |-> "delete", user |-> userId, fileId |-> fileId,
                               file |-> file, s3Keys |-> s3Keys,
                               pending |-> 1..Len(s3Keys), failed |-> {}])
  /\ UNCHANGED <<db, store, wrote, nextId, nextUuid, clock, bulkBucket, tmpFiles, millis>>

\* Fault: the record is deleted as soon as the first key has settled.
DeleteObjectFirstSettles(p, E) ==
  /\ pc[p] = "deleteObjects"
  /\ LET r == req[p]
     IN \E i \in r.pending, outcome \in E.deletes :
          LET r1 == With(r, "pending", r.pending \ {i})
          IN
          /\ IF outcome = "ok"
             THEN /\ store' = store \ {Obj(CompBucket, r.s3Keys[i])}
                  /\ req' = [req EXCEPT ![p] = r1]
             ELSE /\ store' = store
                  /\ req' = [req EXCEPT ![p] = With(r1, "failed", r.failed \cup {i})]
          /\ pc' = [pc EXCEPT ![p] = "deleteOne"]
  /\ UNCHANGED <<db, wrote, nextId, nextUuid, started, clock, bulkBucket, tmpFiles, millis>>

\* Fault: a key whose DeleteObjectCommand throws aborts the delete.
DeleteObjectFailFast(p, E) ==
  /\ pc[p] = "deleteObjects"
  /\ LET r == req[p]
     IN \E i \in r.pending, outcome \in E.deletes :
          LET r1 == With(r, "pending", r.pending \ {i})
          IN
          IF outcome = "ok"
          THEN /\ store' = store \ {Obj(CompBucket, r.s3Keys[i])}
               /\ req' = [req EXCEPT ![p] = r1]
               /\ pc' = [pc EXCEPT ![p] =
                           IF r.pending = {i} THEN "deleteOne" ELSE "deleteObjects"]
          ELSE /\ store' = store
               /\ Finish(p, With(With(r1, "failed", r.failed \cup {i}), "resp",
                                 ServerError("Delete failed", "S3Error")))
  /\ UNCHANGED <<db, wrote, nextId, nextUuid, started, clock, bulkBucket, tmpFiles, millis>>

\* Lines 342-355: one DeleteObjectCommand per key, issued together and
\* settled in any order; a key whose command throws is logged and skipped.
DeleteObject(p, E) ==
  /\ pc[p] = "deleteObjects"
  /\ LET r == req[p]
     IN \E i \in r.pending, outcome \in E.deletes :
          LET r1 == With(r, "pending", r.pending \ {i})
          IN
          /\ IF outcome = "ok"
             THEN /\ store' = store \ {Obj(CompBucket, r.s3Keys[i])}
                  /\ req' = [req EXCEPT ![p] = r1]
             ELSE /\ store' = store
                  /\ req' = [req EXCEPT ![p] = With(r1, "failed", r.failed \cup {i})]
          /\ pc' = [pc EXCEPT ![p] =
                      IF r.pending = {i} THEN "deleteOne" ELSE "deleteObjects"]
  /\ UNCHANGED <<db, wrote, nextId, nextUuid, started, clock, bulkBucket, tmpFiles, millis>>

\* Lines 357-371: deleteOne scoped by id and owner, then the 200 response.
DeleteOne(p, E) ==
  /\ pc[p] = "deleteOne"
  /\ LET r == req[p]
     IN \E outcome \in E.dbs :
          IF outcome = "ok"
          THEN /\ db' = db \ FindOwned({r.fileId}, r.user)
               /\ Finish(p, With(r, "resp",
                    [status |-> 200, message |-> "File deleted successfully",
                     deletedFile |-> [_id |-> r.file._id, filename |-> r.file.filename,
                                      s3Key |-> r.file.s3Key, deletedKeys |-> r.s3Keys]]))
          ELSE /\ db' = db
               /\ Finish(p, With(r, "resp", ServerError("Delete failed", "MongoError")))
  /\ UNCHANGED <<store, wrote, nextId, nextUuid, started, clock, bulkBucket, tmpFiles, millis>>

(***************************************************************************)
(* bulkDeleteFiles, lines 384-500.  A request body is                      *)
(* [isArray, fileIds]: fileIds is what the body holds under that name.     *)
(***************************************************************************)
\* req.body when no body parser has run (Express 5): undefined.
Unparsed == [parsed |-> FALSE]

\* The answer of Express's error handler to a handler that threw.
Unhandled(error) == [status |-> 500, unhandled |-> error]

RECURSIVE Flatten(_)
Flatten(seqs) ==
  IF Len(seqs) = 0 THEN <<>> ELSE seqs[1] \o Flatten(Tail(seqs))

AllS3Keys(files) == Flatten([i \in 1..Len(files) |-> getS3KeysForFile(files[i])])

\* Fault: an id without an owned record fails the whole request.
BulkFindAllOrNothing(p, E) ==
  /\ Begin(p, E)
  /\ \E userId \in E.users, body \in E.bodies :
       LET r0 == [op |-> "bulk", user |-> userId, body |-> body]
           fileIds == body.fileIds
       IN
       IF userId = NoUser THEN Finish(p, With(r0, "resp", Unauthorized))
       ELSE IF ~body.isArray \/ Len(fileIds) = 0
       THEN Finish(p, With(r0, "resp", [status |-> 400, error |-> "INVALID_REQUEST"]))
       ELSE IF Len(fileIds) > MAX_BULK_DELETE
       THEN Finish(p, With(r0, "resp", [status |-> 400, error |-> "TOO_MANY_FILES"]))
       ELSE IF \E i \in 1..Len(fileIds) : ~IsValidObjectId(fileIds[i])
       THEN Finish(p, With(r0, "resp",
              [status |-> 400, error |-> "INVALID_FILE_IDS",
               invalidIds |-> SelectSeq(fileIds, LAMBDA id : ~IsValidObjectId(id))]))
       ELSE \E outcome \in E.dbs :
         IF outcome # "ok"
         THEN Finish(p, With(r0, "resp", ServerError("Bulk delete failed", "MongoError")))
         ELSE LET files == ToArray(FindOwned(Range(fileIds), userId))
              IN IF Len(files) < Cardinality(Range(fileIds))
                 THEN Finish(p, With(r0, "resp", [status |-> 404, error |-> "NO_FILES_FOUND"]))
                 ELSE Goto(p, "deleteChunks",
                           [op |-> "bulk", user |-> userId, body |-> body,
                            files |-> files, allS3Keys |-> AllS3Keys(files),
                            i |-> 0, deleteResults |-> <<>>, thrown |-> 0])
  /\ UNCHANGED <<db, store, wrote, nextId, nextUuid, clock, bulkBucket, tmpFiles, millis>>

\* Fault: the lookup runs before the size and shape checks of the id list.
BulkFindLookupFirst(p, E) ==
  /\ Begin(p, E)
  /\ \E userId \in E.users, body \in E.bodies :
       LET r0 == [op |-> "bulk", user |-> userId, body |-> body]
           fileIds == body.fileIds
       IN
       IF userId = NoUser THEN Finish(p, With(r0, "resp", Unauthorized))
       ELSE IF ~body.isArray \/ Len(fileIds) = 0
       THEN Finish(p, With(r0, "resp", [status |-> 400, error |-> "INVALID_REQUEST"]))
       ELSE \E outcome \in E.dbs :
         IF outcome # "ok"
         THEN Finish(p, With(r0, "resp", ServerError("Bulk delete failed", "MongoError")))
         ELSE LET files == ToArray(FindOwned(Range(fileIds), userId))
              IN IF Len(files) = 0
                 THEN Finish(p, With(r0, "resp", [status |-> 404, error |-> "NO_FILES_FOUND"]))
                 ELSE IF Len(fileIds) > MAX_BULK_DELETE
                 THEN Finish(p, With(r0, "resp", [status |-> 400, error |-> "TOO_MANY_FILES"]))
                 ELSE IF \E i \in 1..Len(fileIds) : ~IsValidObjectId(fileIds[i])
                 THEN Finish(p, With(r0, "resp",
                        [status |-> 400, error |-> "INVALID_FILE_IDS",
                         invalidIds |-> SelectSeq(fileIds, LAMBDA id : ~IsValidObjectId(id))]))
                 ELSE Goto(p, "deleteChunks",
                           [op |-> "bulk", user |-> userId, body |-> body,
                            files |-> files, allS3Keys |-> AllS3Keys(files),
                            i |-> 0, deleteResults |-> <<>>, thrown |-> 0])
  /\ UNCHANGED <<db, store, wrote, nextId, nextUuid, clock, bulkBucket, tmpFiles, millis>>

\* Lines 385-442: the checks, find scoped by owner, the keys of the files.
BulkFind(p, E) ==
  /\ Begin(p, E)
  /\ \E userId \in E.users, body \in E.bodies :
       LET r0 == [op |-> "bulk", user |-> userId, body |-> body]
           fileIds == body.fileIds
       IN
       IF userId = NoUser THEN Finish(p, With(r0, "resp", Unauthorized))
       ELSE IF body = Unparsed
       THEN Finish(p, With(r0, "resp", Unhandled("TypeError")))
       ELSE IF ~body.isArray \/ Len(fileIds) = 0
       THEN Finish(p, With(r0, "resp", [status |-> 400, error |-> "INVALID_REQUEST"]))
       ELSE IF Len(fileIds) > MAX_BULK_DELETE
       THEN Finish(p, With(r0, "resp", [status |-> 400, error |-> "TOO_MANY_FILES"]))
       ELSE IF \E i \in 1..Len(fileIds) : ~IsValidObjectId(fileIds[i])
       THEN Finish(p, With(r0, "resp",
              [status |-> 400, error |-> "INVALID_FILE_IDS",
               invalidIds |-> SelectSeq(fileIds, LAMBDA id : ~IsValidObjectId(id))]))
       ELSE \E outcome \in E.dbs :
         IF outcome # "ok"
         THEN Finish(p, With(r0, "resp", ServerError("Bulk delete failed", "MongoError")))
         ELSE LET files == ToArray(FindOwned(Range(fileIds), userId))
              IN IF Len(files) = 0
                 THEN Finish(p, With(r0, "resp", [status |-> 404, error |-> "NO_FILES_FOUND"]))
                 ELSE Goto(p, "deleteChunks",
                           [op |-> "bulk", user |-> userId, body |-> body,
                            files |-> files, allS3Keys |-> AllS3Keys(files),
                            i |-> 0, deleteResults |-> <<>>, thrown |-> 0])
  /\ UNCHANGED <<db, store, wrote, nextId, nextUuid, clock, bulkBucket, tmpFiles, millis>>

\* The results a DeleteObjectsCommand that returns may report for a chunk:
\* the positions it deleted ("ok": all of them; "partial": all but one).
BatchResults(chunk, outcome) ==
  IF outcome = "ok" THEN {1..Len(chunk)}
  ELSE {(1..Len(chunk)) \ {k} : k \in 1..Len(chunk)}

\* Fault: a batch whose call throws ends the request with the 500 of the
\* catch block.
DeleteChunkFailFast(p, E) ==
  /\ pc[p] = "deleteChunks"
  /\ LET r     == req[p]
         chunk == SubSeq(r.allS3Keys, r.i + 1, Min(r.i + chunkSize, Len(r.allS3Keys)))
         next  == r.i + chunkSize
         r1    == With(r, "i", next)
     IN
     \E outcome \in E.batches :
       IF outcome # "throw"
       THEN \E deleted \in BatchResults(chunk, outcome) :
              /\ store' = store \ {Obj(bulkBucket, chunk[k]) : k \in deleted}
              /\ req' = [req EXCEPT ![p] =
                   With(r1, "deleteResults",
                        Append(r.deleteResults,
                               [Deleted |-> Cardinality(deleted),
                                Errors |-> Len(chunk) - Cardinality(deleted)]))]
              /\ pc' = [pc EXCEPT ![p] =
                          IF next < Len(r.allS3Keys) THEN "deleteChunks" ELSE "deleteMany"]
       ELSE /\ store' = store
            /\ Finish(p, With(With(r1, "thrown", r.thrown + 1), "resp",
                              ServerError("Bulk delete failed", "S3Error")))
  /\ UNCHANGED <<db, wrote, nextId, nextUuid, started, clock, bulkBucket, tmpFiles, millis>>

\* Lines 448-469: one DeleteObjectsCommand per chunk of at most chunkSize
\* keys, against process.env.S3_BUCKET_NAME.  The call throws, or it
\* returns the keys it deleted (Deleted) and those it could not (Errors).
DeleteChunk(p, E) ==
  /\ pc[p] = "deleteChunks"
  /\ LET r     == req[p]
         chunk == SubSeq(r.allS3Keys, r.i + 1, Min(r.i + chunkSize, Len(r.allS3Keys)))
         next  == r.i + chunkSize
         r1    == With(r, "i", next)
     IN
     /\ \E outcome \in E.batches :
          IF outcome # "throw"
          THEN \E deleted \in BatchResults(chunk, outcome) :
                 /\ store' = store \ {Obj(bulkBucket, chunk[k]) : k \in deleted}
                 /\ req' = [req EXCEPT ![p] =
                      With(r1, "deleteResults",
                           Append(r.deleteResults,
                                  [Deleted |-> Cardinality(deleted),
                                   Errors |-> Len(chunk) - Cardinality(deleted)]))]
          ELSE /\ store' = store
               /\ req' = [req EXCEPT ![p] = With(r1, "thrown", r.thrown + 1)]
     /\ pc' = [pc EXCEPT ![p] =
                 IF next < Len(r.allS3Keys) THEN "deleteChunks" ELSE "deleteMany"]
  /\ UNCHANGED <<db, wrote, nextId, nextUuid, started, clock, bulkBucket, tmpFiles, millis>>

RECURSIVE SumDeleted(_)
SumDeleted(results) ==
  IF Len(results) = 0 THEN 0 ELSE results[1].Deleted + SumDeleted(Tail(results))

FileSummary(file) ==
  [_id |-> file._id, filename |-> file.filename, s3Key |-> file.s3Key, type |-> file.type]

\* Fault: deleteMany filtered by owner alone.
DeleteManyAllOwned(files, userId) == {d \in db : d.uploadedBy = userId}

\* deleteMany({_id: {$in: ids of files}, uploadedBy: userId}): the documents
\* it removes are those of the filter still in the store.
DeleteManyTargets(files, userId) ==
  FindOwned({files[i]._id : i \in 1..Len(files)}, userId)

\* Lines 471-492: deleteMany of the found files, then the 200 response.
DeleteMany(p, E) ==
  /\ pc[p] = "deleteMany"
  /\ LET r == req[p]
     IN \E outcome \in E.dbs :
          IF outcome = "ok"
          THEN LET removed == DeleteManyTargets(r.files, r.user)
               IN /\ db' = db \ removed
                  /\ Finish(p, With(r, "resp",
                       [status |-> 200,
                        deletedCount |-> Cardinality(removed),
                        s3ObjectsDeleted |-> SumDeleted(r.deleteResults),
                        deletedFiles |-> [i \in 1..Len(r.files) |-> FileSummary(r.files[i])]]))
          ELSE /\ db' = db
               /\ Finish(p, With(r, "resp", ServerError("Bulk delete failed", "MongoError")))
  /\ UNCHANGED <<store, wrote, nextId, nextUuid, started, clock, bulkBucket, tmpFiles, millis>>

(***************************************************************************)
(* getFileById, lines 505-556: one owner-scoped findOne.                   *)
(***************************************************************************)
\* Fault: a record of another owner is answered 403 instead of 404.
GetFileByIdTellsForbidden(p, E) ==
  /\ Begin(p, E)
  /\ \E userId \in E.users, fileId \in E.ids :
       LET r0 == [op |-> "get", user |-> userId, fileId |-> fileId]
       IN
       IF userId = NoUser THEN Finish(p, With(r0, "resp", Unauthorized))
       ELSE IF ~IsValidObjectId(fileId) THEN Finish(p, With(r0, "resp", InvalidFileId))
       ELSE \E outcome \in E.dbs :
         IF outcome # "ok"
         THEN Finish(p, With(r0, "resp",
                ServerError("Failed to retrieve file", "MongoError")))
         ELSE LET found == FindOwned({fileId}, userId)
              IN IF found = {} /\ \E d \in db : d._id = fileId
                 THEN Finish(p, With(r0, "resp", [status |-> 403, error |-> "FORBIDDEN"]))
                 ELSE IF found = {}
                 THEN Finish(p, With(r0, "resp", NotFound))
                 ELSE LET file == CHOOSE d \in found : TRUE
                      IN Finish(p, With(r0, "resp",
                           [status |-> 200, file |-> file, id |-> file._id,
                            hasPreview |-> file.preview # file.src,
                            downloadUrl |-> file.src, previewUrl |-> file.preview]))
  /\ UNCHANGED <<db, store, wrote, nextId, nextUuid, clock, bulkBucket, tmpFiles, millis>>

GetFileById(p, E) ==
  /\ Begin(p, E)
  /\ \E userId \in E.users, fileId \in E.ids :
       LET r0 == [op |-> "get", user |-> userId, fileId |-> fileId]
       IN
       IF userId = NoUser THEN Finish(p, With(r0, "resp", Unauthorized))
       ELSE IF ~IsValidObjectId(fileId) THEN Finish(p, With(r0, "resp", InvalidFileId))
       ELSE \E outcome \in E.dbs :
         IF outcome # "ok"
         THEN Finish(p, With(r0, "resp",
                ServerError("Failed to retrieve file", "MongoError")))
         ELSE LET found == FindOwned({fileId}, userId)
              IN IF found = {}
                 THEN Finish(p, With(r0, "resp", NotFound))
                 ELSE LET file == CHOOSE d \in found : TRUE
                      IN Finish(p, With(r0, "resp",
                           [status |-> 200, file |-> file, id |-> file._id,
                            hasPreview |-> file.preview # file.src,
                            downloadUrl |-> file.src, previewUrl |-> file.preview]))
  /\ UNCHANGED <<db, store, wrote, nextId, nextUuid, clock, bulkBucket, tmpFiles, millis>>

(***************************************************************************)
(* searchFiles, lines 166-277.  A query-string value is a string of        *)
(* digits, some other text, or "undefined" when the parameter is absent;   *)
(* a JavaScript number is [nan, v].                                        *)
(***************************************************************************)
Num(v) == [nan |-> FALSE, v |-> v]
NaN == [nan |-> TRUE, v |-> 0]

\* parseInt(x.toString()) of a query-string value.
ParseInt(raw) ==
  CASE raw = "0" -> Num(0)
    [] raw = "1" -> Num(1)
    [] raw = "2" -> Num(2)
    [] raw = "3" -> Num(3)
    [] raw = "10" -> Num(10)
    [] raw = "100" -> Num(100)
    [] raw = "101" -> Num(101)
    [] raw = "150" -> Num(150)
    [] raw = "-1" -> Num(0 - 1)
    [] raw = "2.9" -> Num(2)
    [] raw = "7up" -> Num(7)
    [] OTHER -> NaN

\* Math.max and Math.min: NaN when an argument is NaN.
MathMax(a, b) == IF a.nan \/ b.nan THEN NaN ELSE Num(Max(a.v, b.v))
MathMin(a, b) == IF a.nan \/ b.nan THEN NaN ELSE Num(Min(a.v, b.v))

\* Lines 186-187 and 225-227.
PageNum(page) ==
  MathMax(Num(1), IF page = "undefined" THEN Num(DefaultPage) ELSE ParseInt(page))
LimitNum(limit) ==
  MathMin(Num(MaxLimit),
          MathMax(Num(1), IF limit = "undefined" THEN Num(DefaultLimit) ELSE ParseInt(limit)))

\* Lines 192-222: the filter.  The text filter is a case-insensitive regex
\* on the document's field originalName; a document without that field
\* does not match it.
Field(d, name) == IF name \in DOMAIN d THEN d[name] ELSE <<>>

\* Fault: the search filter without the owner scope.
MatchesAnyOwner(d, userId, q) ==
  /\ q.query # <<>> =>
       /\ "originalName" \in DOMAIN d
       /\ Contains(ToLowerCase(d["originalName"]), ToLowerCase(q.query))
  /\ q.type # "" => d.type = q.type
  /\ q.mimeType # <<>> => d.mimeType = q.mimeType
  /\ q.minSize # 0 => d.size >= q.minSize
  /\ q.maxSize # 0 => d.size <= q.maxSize
  /\ q.startDate # 0 => d.uploadedAt >= q.startDate
  /\ q.endDate # 0 => d.uploadedAt <= q.endDate

MatchesFilter(d, userId, q) ==
  /\ d.uploadedBy = userId
  /\ q.query # <<>> =>
       /\ "originalName" \in DOMAIN d
       /\ Contains(ToLowerCase(d["originalName"]), ToLowerCase(q.query))
  /\ q.type # "" => d.type = q.type
  /\ q.mimeType # <<>> => d.mimeType = q.mimeType
  /\ q.minSize # 0 => d.size >= q.minSize
  /\ q.maxSize # 0 => d.size <= q.maxSize
  /\ q.startDate # 0 => d.uploadedAt >= q.startDate
  /\ q.endDate # 0 => d.uploadedAt <= q.endDate

Matching(userId, q) == {d \in db : MatchesFilter(d, userId, q)}

\* Lines 229-231: the sort key; a document has no field originalName, so
\* that key is equal for all and the natural order decides.
SortKey(d, sortBy) ==
  IF sortBy = "size" THEN d.size
  ELSE IF sortBy = "uploadedAt" THEN d.uploadedAt
  ELSE 0

RECURSIVE Sorted(_, _, _)
Sorted(docs, sortBy, sortOrder) ==
  IF docs = {} THEN <<>>
  ELSE LET before(a, b) ==
             \/ (sortOrder = "asc" /\ SortKey(a, sortBy) < SortKey(b, sortBy))
             \/ (sortOrder # "asc" /\ SortKey(a, sortBy) > SortKey(b, sortBy))
             \/ (SortKey(a, sortBy) = SortKey(b, sortBy) /\ a._id <= b._id)
           first == CHOOSE d \in docs : \A e \in docs : before(d, e)
       IN  <<first>> \o Sorted(docs \ {first}, sortBy, sortOrder)

\* find(filter).sort(...).skip(skip).limit(limitNum).toArray()
Page(docs, skip, limitNum) ==
  SubSeq(docs, skip + 1, Min(Len(docs), skip + limitNum))

\* Fault: the page count rounded down.
FloorDiv(a, b) == a \div b

CeilDiv(a, b) == (a + b - 1) \div b

\* Lines 244-272: the response, once both queries have answered.
SearchResponse(r) ==
  LET totalPages == CeilDiv(r.totalCount, r.limitNum)
  IN  [status |-> 200, items |-> r.items, hasMore |-> r.pageNum < totalPages,
       pagination |-> [currentPage |-> r.pageNum, totalPages |-> totalPages,
                       totalCount |-> r.totalCount, limit |-> r.limitNum,
                       hasNextPage |-> r.pageNum < totalPages,
                       hasPreviousPage |-> r.pageNum > 1],
       filters |-> r.q]

SearchFailed == ServerError("Search failed", "MongoError")

\* Lines 167-231: the checks, the filter, the page and the limit.  A skip
\* or limit of NaN makes the find fail.
SearchStart(p, E) ==
  /\ Begin(p, E)
  /\ \E userId \in E.users, q \in E.searches :
       LET r0 == [op |-> "search", user |-> userId, q |-> q]
           pageNum == PageNum(q.page)
           limitNum == LimitNum(q.limit)
       IN
       IF userId = NoUser THEN Finish(p, With(r0, "resp", Unauthorized))
       ELSE IF pageNum.nan \/ limitNum.nan
       THEN Finish(p, With(r0, "resp", SearchFailed))
       ELSE Goto(p, "search",
                 [op |-> "search", user |-> userId, q |-> q,
                  pageNum |-> pageNum.v, limitNum |-> limitNum.v,
                  skip |-> (pageNum.v - 1) * limitNum.v,
                  hasItems |-> FALSE, items |-> <<>>,
                  hasCount |-> FALSE, totalCount |-> 0])
  /\ UNCHANGED <<db, store, wrote, nextId, nextUuid, clock, bulkBucket, tmpFiles, millis>>

\* Lines 234-242: Promise.all of the find and of countDocuments; the two
\* queries reach the store in either order.
SearchFind(p, E) ==
  /\ pc[p] = "search"
  /\ ~req[p].hasItems
  /\ LET r == req[p]
     IN \E outcome \in E.dbs :
          IF outcome # "ok" THEN Finish(p, With(r, "resp", SearchFailed))
          ELSE LET items == Page(Sorted(Matching(r.user, r.q), r.q.sortBy, r.q.sortOrder),
                                 r.skip, r.limitNum)
                   r1 == With(With(r, "items", items), "hasItems", TRUE)
               IN IF r.hasCount THEN Finish(p, With(r1, "resp", SearchResponse(r1)))
                  ELSE Goto(p, "search", r1)
  /\ UNCHANGED <<db, store, wrote, nextId, nextUuid, started, clock, bulkBucket, tmpFiles, millis>>

SearchCount(p, E) ==
  /\ pc[p] = "search"
  /\ ~req[p].hasCount
  /\ LET r == req[p]
     IN \E outcome \in E.dbs :
          IF outcome # "ok" THEN Finish(p, With(r, "resp", SearchFailed))
          ELSE LET r1 == With(With(r, "totalCount", Cardinality(Matching(r.user, r.q))),
                              "hasCount", TRUE)
               IN IF r.hasItems THEN Finish(p, With(r1, "resp", SearchResponse(r1)))
                  ELSE Goto(p, "search", r1)
  /\ UNCHANGED <<db, store, wrote, nextId, nextUuid, started, clock, bulkBucket, tmpFiles, millis>>

(***************************************************************************)
(* The environment between requests.                                       *)
(***************************************************************************)
\* Midnight passes.
Tick ==
  /\ clock < Len(Dates)
  /\ clock' = clock + 1
  /\ UNCHANGED <<db, store, pc, req, wrote, nextId, nextUuid, started, bulkBucket, tmpFiles, millis>>

Query(query, type, page, limit) ==
  [query |-> query, type |-> type, mimeType |-> <<>>, minSize |-> 0, maxSize |-> 0,
   startDate |-> 0, endDate |-> 0, page |-> page, limit |-> limit,
   sortBy |-> "uploadedAt", sortOrder |-> "desc"]

Body(fileIds) == [isArray |-> TRUE, fileIds |-> fileIds]

(***************************************************************************)
(* The lifecycle specification: two owners upload, read and delete         *)
(* concurrently; every call on either store may fail.                      *)
(***************************************************************************)
Lifecycle ==
  [requests |-> MaxRequests,
   uploads  |-> MaxUploads,
   users    |-> Owners,
   files    |-> LifecycleFiles,
   ids      |-> 1..MaxUploads,
   bodies   |-> {Body(<<1>>), Body(<<1, 2>>), Body(<<2, 3>>), Body(<<1, 0>>),
                 Body([i \in 1..(MAX_BULK_DELETE + 1) |-> 1])},
   searches |-> {Query(<<>>, "", "undefined", "undefined")},
   puts     |-> {"ok", "throw"},
   deletes  |-> {"ok", "throw"},
   batches  |-> {"ok", "partial", "throw"},
   dbs      |-> {"ok", "throw"}]

Init ==
  /\ db = {}
  /\ store = {}
  /\ pc = [p \in Procs |-> "idle"]
  /\ req = [p \in Procs |-> Idle]
  /\ wrote = {}
  /\ nextId = 1
  /\ nextUuid = 1
  /\ started = 0
  /\ clock = 1
  /\ bulkBucket \in {CompBucket, OtherBucket}
  /\ tmpFiles = {}
  /\ millis = 1

Next ==
  \E p \in Procs :
    \/ UploadStart(p, Lifecycle)
    \/ PutOriginal(p, Lifecycle)
    \/ PutPreview(p, Lifecycle)
    \/ InsertOne(p, Lifecycle)
    \/ DeleteFind(p, Lifecycle)
    \/ DeleteObject(p, Lifecycle)
    \/ DeleteOne(p, Lifecycle)
    \/ BulkFind(p, Lifecycle)
    \/ DeleteChunk(p, Lifecycle)
    \/ DeleteMany(p, Lifecycle)
    \/ GetFileById(p, Lifecycle)
    \/ SearchStart(p, Lifecycle)
    \/ SearchFind(p, Lifecycle)
    \/ SearchCount(p, Lifecycle)

Spec == Init /\ [][Next]_vars

\* The lifecycle with process.env.S3_BUCKET_NAME set to the bucket of
\* S3_COMP_BUCKET_BKT.
InitAligned == Init /\ bulkBucket = CompBucket

SpecAligned == InitAligned /\ [][Next]_vars

(***************************************************************************)
(* The ingestion specification: uploads handled one after the other, over  *)
(* every kind of payload, with or without an authenticated owner, across   *)
(* midnight; every call on either store may fail.                          *)
(***************************************************************************)
Ingest ==
  [requests |-> MaxIngests,
   uploads  |-> MaxUploads,
   users    |-> Owners \cup {NoUser},
   files    |-> IngestFiles,
   puts     |-> {"ok", "throw"},
   dbs      |-> {"ok", "throw"}]

NextIngest ==
  \/ UploadStart("r1", Ingest)
  \/ PutOriginal("r1", Ingest)
  \/ PutPreview("r1", Ingest)
  \/ InsertOne("r1", Ingest)
  \/ Tick

SpecIngest == Init /\ [][NextIngest]_vars

(***************************************************************************)
(* The catalogue specification: two owners upload and search, one request  *)
(* after the other, with stores that answer; the searches cover the page   *)
(* and limit values a client may send, the text filter and the category    *)
(* filter.                                                                 *)
(***************************************************************************)
PageValues == {"undefined", "0", "-1", "1", "2", "3", "abc"}
LimitValues == {"undefined", "0", "1", "2", "150", "abc"}

CatalogueSearches ==
  {Query(<<>>, "", page, limit) : page \in PageValues, limit \in LimitValues}
    \cup {Query(<<"pic">>, "", "undefined", "undefined"),
          Query(<<"PIC", ".", "jpg">>, "image", "1", "2"),
          Query(<<"clip">>, "image", "undefined", "undefined"),
          Query(<<>>, "video", "2", "1")}

Catalogue ==
  [requests |-> MaxCatalogue,
   uploads  |-> MaxCatalogue,
   users    |-> Owners,
   files    |-> {BigImage, Video},
   searches |-> CatalogueSearches,
   puts     |-> {"ok"},
   dbs      |-> {"ok"}]

NextCatalogue ==
  \/ UploadStart("r1", Catalogue)
  \/ PutOriginal("r1", Catalogue)
  \/ PutPreview("r1", Catalogue)
  \/ InsertOne("r1", Catalogue)
  \/ SearchStart("r1", Catalogue)
  \/ SearchFind("r1", Catalogue)
  \/ SearchCount("r1", Catalogue)

SpecCatalogue == Init /\ [][NextCatalogue]_vars

(***************************************************************************)
(* The temporary files of extractMediaMetadata (utils/upload.ts 23-72) and *)
(* generateVideoPoster (153-241), one step per await.  A file of the       *)
(* temporary directory is a path and the call that created it; writing to  *)
(* a path that exists keeps the file and replaces its content.             *)
(***************************************************************************)
Instants == <<"1793577600000", "1793577600001">>

\* Math.random().toString(36).substr(2, 9): the n-th call's value differs
\* from every earlier one.
RandomId(n) ==
  <<"k3x9q0z1a", "p0q2m8b7c", "w5e4r3t2y", "h7j6g5f4d", "z1x2c3v4b", "n9m8l7k6j">>[n]

TmpDir == <<"/", "tmp">>
TempMediaPath(now) == TmpDir \o <<"/", "temp_media_", Instants[now], ".", "tmp">>
TempInputPath(now, randomId) ==
  TmpDir \o <<"/", "video_input_", Instants[now], "_", randomId, ".", "mp4">>
TempOutputPath(now, randomId) ==
  TmpDir \o <<"/", "screenshot_", Instants[now], "_", randomId, ".", "jpg">>

Exists(path) == \E f \in tmpFiles : f.path = path
Written(path, call) ==
  IF Exists(path) THEN tmpFiles ELSE tmpFiles \cup {[path |-> path, by |-> call]}
Unlinked(path) == {f \in tmpFiles : f.path # path}

\* sizeOf(buffer) returns both dimensions: the buffer is an image it decodes.
SizeOfDecodes(file) ==
  /\ StartsWith(file.sniff, <<"image", "/">>)
  /\ file.width > 0 /\ file.height > 0

NoDimensions(file) ==
  [mimeType |-> file.sniff, width |-> 0, height |-> 0, duration |-> 0]

\* Lines 23-45: the sniff, the in-memory decode, and the path of the
\* temporary file when the decode gives no dimensions.
ProbeStart(p, E) ==
  /\ Begin(p, E)
  /\ \E file \in E.files :
       LET r == [op |-> "probe", call |-> started + 1, file |-> file]
       IN  IF SizeOfDecodes(file)
           THEN Finish(p, With(With(r, "tempFile", <<>>), "ret",
                               extractMediaMetadata(file)))
           ELSE Goto(p, "probeWrite",
                     With(With(r, "tempFile", TempMediaPath(millis)), "ret",
                          NoDimensions(file)))
  /\ UNCHANGED <<db, store, wrote, nextId, nextUuid, clock, bulkBucket, tmpFiles, millis>>

\* Line 46: await writeFile(tempFile, buffer); a write that fails may have
\* created the file already.
ProbeWriteFile(p, E) ==
  /\ pc[p] = "probeWrite"
  /\ LET r == req[p]
     IN \E outcome \in E.writes :
          /\ tmpFiles' = IF outcome = "throw" THEN tmpFiles
                         ELSE Written(r.tempFile, r.call)
          /\ Goto(p, IF outcome = "ok" THEN "ffprobe" ELSE "probeUnlink", r)
  /\ UNCHANGED <<db, store, wrote, nextId, nextUuid, started, clock, bulkBucket, millis>>

\* Lines 48-62: ffprobe reads the file at tempFile; a failure is logged.
Ffprobe(p, E) ==
  /\ pc[p] = "ffprobe"
  /\ LET r == req[p]
     IN \E outcome \in E.probes :
          Goto(p, "probeUnlink",
               IF outcome = "ok" /\ Exists(r.tempFile)
               THEN With(r, "ret", extractMediaMetadata(r.file))
               ELSE r)
  /\ UNCHANGED <<db, store, wrote, nextId, nextUuid, started, clock, bulkBucket, tmpFiles, millis>>

\* Lines 63-71: finally, unlink(tempFile), its error swallowed; return.
ProbeUnlink(p) ==
  /\ pc[p] = "probeUnlink"
  /\ tmpFiles' = Unlinked(req[p].tempFile)
  /\ Finish(p, req[p])
  /\ UNCHANGED <<db, store, wrote, nextId, nextUuid, started, clock, bulkBucket, millis>>

\* Lines 153-168: the two paths, from Date.now() and Math.random().
PosterStart(p, E) ==
  /\ Begin(p, E)
  /\ \E file \in E.files :
       Goto(p, "posterWrite",
            [op |-> "poster", call |-> started + 1, file |-> file,
             tempInputPath |-> TempInputPath(millis, RandomId(started + 1)),
             tempOutputPath |-> TempOutputPath(millis, RandomId(started + 1)),
             ret |-> Null])
  /\ UNCHANGED <<db, store, wrote, nextId, nextUuid, clock, bulkBucket, tmpFiles, millis>>

\* Line 171: await fs.writeFile(tempInputPath, buffer); a failure goes to
\* the catch block of lines 229-240, which unlinks both paths.
PosterWriteFile(p, E) ==
  /\ pc[p] = "posterWrite"
  /\ LET r == req[p]
     IN \E outcome \in E.writes :
          /\ tmpFiles' = IF outcome = "throw" THEN tmpFiles
                         ELSE Written(r.tempInputPath, r.call)
          /\ Goto(p, IF outcome = "ok" THEN "screenshots" ELSE "unlinkInput", r)
  /\ UNCHANGED <<db, store, wrote, nextId, nextUuid, started, clock, bulkBucket, millis>>

\* Lines 190-207: ffmpeg(tempInputPath).screenshots(...) ends, with the
\* frame written or not, or fails, with or without a partial output file.
Screenshots(p, E) ==
  /\ pc[p] = "screenshots"
  /\ LET r == req[p]
     IN \E outcome \in E.ffmpegs :
          LET ran == IF Exists(r.tempInputPath) THEN outcome ELSE "error"
          IN  /\ tmpFiles' = IF ran \in {"end", "errorPartial"}
                             THEN Written(r.tempOutputPath, r.call)
                             ELSE tmpFiles
              /\ Goto(p, IF ran \in {"end", "endNoOutput"}
                         THEN "posterRead" ELSE "unlinkInput", r)
  /\ UNCHANGED <<db, store, wrote, nextId, nextUuid, started, clock, bulkBucket, millis>>

\* Lines 208-225: on 'end', fs.access and fs.readFile of the output file.
PosterRead(p, E) ==
  /\ pc[p] = "posterRead"
  /\ LET r == req[p]
     IN \E outcome \in E.reads :
          Goto(p, "unlinkInput",
               IF outcome = "ok" /\ Exists(r.tempOutputPath)
               THEN With(r, "ret", generateVideoPoster(With(r.file, "poster", TRUE)))
               ELSE r)
  /\ UNCHANGED <<db, store, wrote, nextId, nextUuid, started, clock, bulkBucket, tmpFiles, millis>>

\* Fault: the cleanup removes the input file and leaves the output file.
UnlinkOutputSkipped(p) ==
  /\ pc[p] = "unlinkOutput"
  /\ tmpFiles' = tmpFiles
  /\ Finish(p, req[p])
  /\ UNCHANGED <<db, store, wrote, nextId, nextUuid, started, clock, bulkBucket, millis>>

\* cleanup(), lines 177-188, and the catch block, lines 233-236:
\* fs.unlink(tempInputPath), then fs.unlink(tempOutputPath), errors ignored.
UnlinkInput(p) ==
  /\ pc[p] = "unlinkInput"
  /\ tmpFiles' = Unlinked(req[p].tempInputPath)
  /\ Goto(p, "unlinkOutput", req[p])
  /\ UNCHANGED <<db, store, wrote, nextId, nextUuid, started, clock, bulkBucket, millis>>

UnlinkOutput(p) ==
  /\ pc[p] = "unlinkOutput"
  /\ tmpFiles' = Unlinked(req[p].tempOutputPath)
  /\ Finish(p, req[p])
  /\ UNCHANGED <<db, store, wrote, nextId, nextUuid, started, clock, bulkBucket, millis>>

\* A millisecond passes.
MilliTick ==
  /\ millis < Len(Instants)
  /\ millis' = millis + 1
  /\ UNCHANGED <<db, store, pc, req, wrote, nextId, nextUuid, started, clock, bulkBucket, tmpFiles>>

(***************************************************************************)
(* The probing specification: two uploads in flight at once call           *)
(* extractMediaMetadata and generateVideoPoster, within one millisecond or *)
(* across two; every file operation and every external tool may fail.      *)
(***************************************************************************)
Probing ==
  [requests |-> MaxProbes,
   files    |-> {BigImage, Video, Audio},
   writes   |-> {"ok", "partial", "throw"},
   probes   |-> {"ok", "throw"},
   ffmpegs  |-> {"end", "endNoOutput", "error", "errorPartial"},
   reads    |-> {"ok", "throw"}]

NextProbing ==
  \/ \E p \in Procs :
       \/ ProbeStart(p, Probing)
       \/ ProbeWriteFile(p, Probing)
       \/ Ffprobe(p, Probing)
       \/ ProbeUnlink(p)
       \/ PosterStart(p, Probing)
       \/ PosterWriteFile(p, Probing)
       \/ Screenshots(p, Probing)
       \/ PosterRead(p, Probing)
       \/ UnlinkInput(p)
       \/ UnlinkOutput(p)
  \/ MilliTick

SpecProbing == Init /\ [][NextProbing]_vars

(***************************************************************************)
(* The classification specification: getFileType applied to MIME types of *)
(* every rule and to filenames with listed, unlisted, upper-case and no    *)
(* extension, and to no filename at all.                                   *)
(***************************************************************************)
MimeTypes ==
  { Png, Mp4, Mp3, OctetStream, Pdf,
    Mime("application", "msword"),
    <<"application", "/", "vnd", ".", "openxmlformats", "-", "officedocument">>,
    Mime("text", "plain"),
    Mime("application", "zip"),
    Mime("application", "json"),
    <<"IMAGE", "/", "png">>,
    <<>> }

Filenames ==
  { <<>>,
    <<"photo", ".", "JPG">>,
    <<"a", "/", "b", "-", "c", ".", "jpg">>,
    <<"clip", ".", "mp4">>,
    <<"song", ".", "mp3">>,
    <<"report", ".", "pdf">>,
    <<"archive", ".", "tar", ".", "gz">>,
    <<"data", ".", "xyz">>,
    <<"README">>,
    <<"png">>,
    <<"v1", ".", "final", "-", "cut">> }

\* One call getFileType(mimeType, filename) and the value it returns.
GetFileType(p, E) ==
  /\ Begin(p, E)
  /\ \E mimeType \in E.mimeTypes, filename \in E.filenames :
       Finish(p, [op |-> "getFileType", mimeType |-> mimeType, filename |-> filename,
                  ret |-> getFileType(mimeType, filename)])
  /\ UNCHANGED <<db, store, wrote, nextId, nextUuid, clock, bulkBucket, tmpFiles, millis>>

Classification ==
  [requests |-> MaxClassified, mimeTypes |-> MimeTypes, filenames |-> Filenames]

NextClassification == \E p \in Procs : GetFileType(p, Classification)

SpecClassification == Init /\ [][NextClassification]_vars

(***************************************************************************)
(* The purge specification: owners upload files whose names hold "-" and   *)
(* "/" or look like a derivative key, and delete them one by one and in    *)
(* bulk, one request after the other, with stores that answer.             *)
(***************************************************************************)
PurgeFiles ==
  { BigImage,
    Video,
    File(<<"a", "/", "b", "-", "c", ".", "jpg">>, Jpeg, Jpeg, 2048, 800, 800, 0, TRUE, FALSE, TRUE),
    File(<<"preview", "-", "1f0e", ".", "jpg">>, Jpeg, Jpeg, 2048, 800, 800, 0, TRUE, FALSE, TRUE) }

Purge ==
  [requests |-> MaxPurges,
   uploads  |-> MaxUploads,
   users    |-> Owners,
   files    |-> PurgeFiles,
   ids      |-> 1..MaxUploads,
   bodies   |-> {Body(<<1>>), Body(<<2, 1>>)},
   puts     |-> {"ok"},
   deletes  |-> {"ok", "throw"},
   batches  |-> {"ok"},
   dbs      |-> {"ok"}]

NextPurge ==
  \/ UploadStart("r1", Purge)
  \/ PutOriginal("r1", Purge)
  \/ PutPreview("r1", Purge)
  \/ InsertOne("r1", Purge)
  \/ DeleteFind("r1", Purge)
  \/ DeleteObject("r1", Purge)
  \/ DeleteOne("r1", Purge)
  \/ BulkFind("r1", Purge)
  \/ DeleteChunk("r1", Purge)
  \/ DeleteMany("r1", Purge)
  \/ Tick

SpecPurge == Init /\ [][NextPurge]_vars

(***************************************************************************)
(* The server specification: requests enter through the middleware stack   *)
(* of server.ts, lines 12-24, which runs its layers in the order of the    *)
(* app.use calls until one of them answers.  The upload router answers     *)
(* every request under /v1/uploads, so such a request passes only the      *)
(* layers mounted before the router.                                       *)
(***************************************************************************)
AppStack == <<"cors", "auth", "uploadRouter", "json", "helmet">>

IndexOf(layer) == CHOOSE i \in 1..Len(AppStack) : AppStack[i] = layer
RunsBefore(a, b) == IndexOf(a) < IndexOf(b)

\* req.body as the upload router's handlers see it, for a JSON body sent.
ReqBody(sent) == IF RunsBefore("json", "uploadRouter") THEN sent ELSE Unparsed

Server ==
  [requests |-> MaxRequests,
   uploads  |-> MaxUploads,
   users    |-> Owners \cup {NoUser},
   files    |-> LifecycleFiles,
   bodies   |-> {ReqBody(sent) : sent \in {Body(<<1>>), Body(<<1, 2>>), Body(<<>>)}},
   puts     |-> {"ok", "throw"},
   dbs      |-> {"ok", "throw"}]

\* The uploads and bulk deletes of the server; the steps of a bulk delete
\* after its lookup are those of the lifecycle specification.
NextServer ==
  \/ UploadStart("r1", Server)
  \/ PutOriginal("r1", Server)
  \/ PutPreview("r1", Server)
  \/ InsertOne("r1", Server)
  \/ BulkFind("r1", Server)
  \/ Tick

SpecServer == Init /\ [][NextServer]_vars

(***************************************************************************)
(* Properties.                                                             *)
(***************************************************************************)
Answered(p, op) == pc[p] = "done" /\ req[p].op = op
Stored(p) == Answered(p, "upload") /\ req[p].resp.status = 201
StoredDoc(p) == With(req[p].resp.doc, "_id", req[p].resp.id)
Acted(p) == req'[p] # req[p] \/ pc'[p] # pc[p]
Holds(key) == Obj(CompBucket, key) \in store

\* C1: the keys getS3KeysForFile rebuilds from a record that uploadFile
\* has stored contain every key that upload wrote: the primary key and the
\* preview or poster key.
C1_ReconstructionCoversWrittenKeys ==
  \A p \in Procs :
    Stored(p) => KeysWritten(req[p]) \subseteq Range(getS3KeysForFile(StoredDoc(p)))

\* The owner-scoped delete of slot p has answered 200 and none of its
\* object-store calls failed.
CleanSingleDelete(p) ==
  /\ Answered(p, "delete")
  /\ req[p].resp.status = 200
  /\ req[p].failed = {}

CleanBulkDelete(p) ==
  /\ Answered(p, "bulk")
  /\ req[p].resp.status = 200
  /\ req[p].thrown = 0
  /\ \A i \in 1..Len(req[p].deleteResults) : req[p].deleteResults[i].Errors = 0

Gone(id) ==
  /\ \A d \in db : d._id # id
  /\ \A w \in wrote : w.id = id => \A k \in w.keys : ~Holds(k)

\* C2: after an upload and a successful owner delete of its record, single
\* or bulk, with every object-store call succeeding, the metadata store
\* holds no such record and the object store none of the objects the
\* upload wrote for it.
C2_DeleteRemovesRecordAndObjects ==
  \A p \in Procs :
    /\ CleanSingleDelete(p) => Gone(req[p].file._id)
    /\ CleanBulkDelete(p) =>
         \A i \in 1..Len(req[p].files) : Gone(req[p].files[i]._id)

\* C3 as stated: in every reachable state every record of the metadata
\* store has its primary object in the object store.
C3_NoRecordWithoutObject ==
  \A d \in db : Holds(d.s3Key)

\* Slot p is a delete request of d's owner that found d and is deleting its
\* objects.
DeletingObjectsOf(p, d) ==
  /\ req[p].user = d.uploadedBy
  /\ \/ pc[p] = "deleteObjects" /\ req[p].file = d
     \/ pc[p] = "deleteChunks" /\ d \in Range(req[p].files)

\* C3 as amended: no record is inserted before its primary object is
\* stored, and a record comes to point to a missing primary object only by
\* an object-deleting step of a delete request, single or bulk, that the
\* record's owner issued and that found the record.
C3_ObjectMissingOnlyByOwnersDelete ==
  [][\A d \in db' :
       ~Holds(d.s3Key)' =>
         /\ d \in db
         /\ \/ ~Holds(d.s3Key)
            \/ \E p \in Procs : Acted(p) /\ DeletingObjectsOf(p, d)]_vars

\* A delete has removed the primary object of a record and has yet to
\* remove the record.
C3_Witness ==
  \E p \in Procs :
    /\ pc[p] = "deleteOne"
    /\ req[p].file \in db
    /\ ~Holds(req[p].file.s3Key)

\* Every record a response of slot p carries belongs to the requester.
ReturnsOnlyOwn(p) ==
  pc[p] = "done" /\ req[p].resp.status \in {200, 201} =>
    CASE req[p].op = "get" -> req[p].resp.file.uploadedBy = req[p].user
      [] req[p].op = "search" ->
           \A i \in 1..Len(req[p].resp.items) :
             req[p].resp.items[i].uploadedBy = req[p].user
      [] req[p].op = "delete" ->
           \A d \in db \cup {req[p].file} :
             d._id = req[p].resp.deletedFile._id => d.uploadedBy = req[p].user
      [] req[p].op = "bulk" ->
           \A i \in 1..Len(req[p].resp.deletedFiles) :
             \A j \in 1..Len(req[p].files) :
               req[p].files[j]._id = req[p].resp.deletedFiles[i]._id
                 => req[p].files[j].uploadedBy = req[p].user
      [] OTHER -> TRUE

\* C4: no step of a request issued with owner id X returns, removes from
\* the metadata store, or deletes a stored object of, a record whose
\* uploadedBy is another owner.
C4_OwnerScoped ==
  [][\A p \in Procs :
       Acted(p) =>
         /\ ReturnsOnlyOwn(p)'
         /\ \A d \in db \ db' : d.uploadedBy = req[p].user
         /\ \A o \in store \ store' :
              \A w \in wrote : o.key \in w.keys => w.owner = req[p].user]_vars

\* Both owners hold a record, and a delete by one of them has answered.
C4_Witness ==
  /\ \E w1, w2 \in wrote : w1.owner # w2.owner
  /\ \E p \in Procs : Answered(p, "delete") /\ req[p].resp.status = 200

\* The category uploadFile resolves for a payload.
ResolvedCategory(file) ==
  getFileType(OrElse(file.sniff, file.mimetype), file.originalname)

\* Slot p answers, in this step, an upload that passed the owner, payload
\* and size checks.
AnswersUpload(p) ==
  /\ pc'[p] = "done" /\ Acted(p)
  /\ req'[p].op = "upload"
  /\ req'[p].user # NoUser
  /\ req'[p].file.present
  /\ req'[p].file.size <= MAX_FILE_SIZE

\* C5: an upload whose resolved category is not image, video or audio is
\* answered with the unsupported-type error, without any object-store
\* write and without inserting a record.
C5_UnsupportedRejected ==
  [][\A p \in Procs :
       AnswersUpload(p) /\ ResolvedCategory(req'[p].file) \notin {"image", "video", "audio"}
         => /\ req'[p].resp = [status |-> 400, error |-> "UNSUPPORTED_MEDIA_TYPE"]
            /\ req'[p].puts = <<>>
            /\ pc[p] \in {"idle", "done"}
            /\ store' = store
            /\ db' = db]_vars

C5_Witness ==
  \E p \in Procs :
    /\ Answered(p, "upload")
    /\ req[p].resp.status = 400
    /\ req[p].resp.error = "UNSUPPORTED_MEDIA_TYPE"
    /\ ResolvedCategory(req[p].file) \in {"document", "other"}

\* C6: a stored audio upload has preview equal to src, details.preview
\* equal to details.src, and issued exactly one object-store put.
C6_AudioPreviewIsOriginal ==
  \A p \in Procs :
    Stored(p) /\ req[p].resp.doc.type = "audio" =>
      /\ req[p].resp.doc.preview = req[p].resp.doc.src
      /\ req[p].resp.doc.details.preview = req[p].resp.doc.details.src
      /\ Len(req[p].puts) = 1

C6_Witness ==
  \E p \in Procs :
    /\ Stored(p)
    /\ req[p].resp.doc.type = "audio"
    /\ req[p].resp.doc.mimeType = Mp3

\* Slot p handles an upload that passed the checks of lines 34-82.
Ingesting(p) == req[p].op = "upload" /\ "fileType" \in DOMAIN req[p]

\* C7: for an image upload whose decoded width and height are both at most
\* 720, generateImagePreview yields no derivative, the only put issued is
\* that of the original, and the stored record has preview equal to src.
C7_SmallImageKeepsOriginal ==
  \A p \in Procs :
    Ingesting(p) /\ req[p].fileType = "image"
      /\ req[p].file.width <= 720 /\ req[p].file.height <= 720 =>
        /\ req[p].previewBuffer = Null
        /\ pc[p] # "putPreview"
        /\ req[p].puts \in {<<>>, <<req[p].s3Key>>}
        /\ Stored(p) => /\ req[p].puts = <<req[p].s3Key>>
                        /\ req[p].resp.doc.preview = req[p].resp.doc.src

C7_Witness ==
  \E p \in Procs :
    /\ Stored(p)
    /\ req[p].fileType = "image"
    /\ req[p].file.width = 720 /\ req[p].file.height = 720

Abs(x) == IF x < 0 THEN 0 - x ELSE x

\* Each side of pw x ph is less than one pixel away from the same side of
\* w x h scaled to fit inside 720 x 720.
WithinRounding(w, h, pw, ph) ==
  LET long == IF w >= h THEN w ELSE h
  IN  /\ Abs(pw * long - w * 720) < long
      /\ Abs(ph * long - h * 720) < long

\* What C8 promises of the stored upload in slot p.
HasBoundedPreview(p) ==
  LET b == req[p].previewBuffer
      k == req[p].previewKey
  IN  /\ b.kind = "jpeg"
      /\ b.width \in 1..720 /\ b.height \in 1..720
      /\ WithinRounding(req[p].file.width, req[p].file.height, b.width, b.height)
      /\ Contains(k, <<"/", "preview", "-">>)
      /\ req[p].puts = <<req[p].s3Key, k>>
      /\ Holds(k)
      /\ req[p].resp.doc.preview = UrlOf(k)
      /\ req[p].resp.doc.src # req[p].resp.doc.preview

\* C8 as stated: for every stored image upload whose width or height
\* exceeds 720, a derivative is produced with width and height at most 720
\* and the aspect ratio of the original within rounding, it is written
\* under a preview key, and the stored record has src different from
\* preview.
C8_EveryLargeImageGetsPreview ==
  \A p \in Procs :
    Stored(p) /\ req[p].fileType = "image"
      /\ (req[p].file.width > 720 \/ req[p].file.height > 720) =>
        HasBoundedPreview(p)

\* C8 as amended: the same for every stored upload of a valid image, one
\* that sharp decodes and re-encodes; an image over the bound that sharp
\* fails on is stored without a derivative, with preview equal to src and
\* the put of the original as its only put.
C8_LargeImageGetsPreview ==
  \A p \in Procs :
    Stored(p) /\ req[p].fileType = "image"
      /\ (req[p].file.width > 720 \/ req[p].file.height > 720) =>
        IF req[p].file.sharpOk
        THEN HasBoundedPreview(p)
        ELSE /\ req[p].previewBuffer = Null
             /\ req[p].puts = <<req[p].s3Key>>
             /\ req[p].resp.doc.preview = req[p].resp.doc.src

\* A stored image with only one axis over the bound.
C8_Witness ==
  \E p \in Procs :
    /\ Stored(p)
    /\ req[p].fileType = "image"
    /\ req[p].file.width = 1000 /\ req[p].file.height = 500
    /\ req[p].previewBuffer = [kind |-> "jpeg", width |-> 720, height |-> 360]

\* C9 as stated: the deletedCount of a bulk delete equals the number of
\* owned ids found, also when another delete of the same records runs
\* concurrently.
C9_DeletedCountIsFoundCount ==
  \A p \in Procs :
    Answered(p, "bulk") /\ req[p].resp.status = 200 =>
      req[p].resp.deletedCount = Len(req[p].files)

\* C9 as amended: a bulk delete removes only records of the requester whose
\* ids it was given, and its deletedCount is the number of records its
\* deleteMany removed: the owned ids found that are still stored, which is
\* the number found unless another delete removed some of them since the
\* lookup, and never more.
C9_DeletedCountIsRemovedCount ==
  [][\A p \in Procs :
       pc[p] = "deleteMany" /\ pc'[p] = "done" /\ req'[p].resp.status = 200 =>
         LET removed == db \ db'
             found   == Range(req[p].files)
         IN  /\ \A d \in removed :
                  /\ d.uploadedBy = req[p].user
                  /\ d._id \in Range(req[p].body.fileIds)
             /\ removed = found \cap db
             /\ req'[p].resp.deletedCount = Cardinality(removed)
             /\ req'[p].resp.deletedCount <= Cardinality(found)
             /\ found \subseteq db => req'[p].resp.deletedCount = Cardinality(found)]_vars

\* A bulk delete of a list mixing an owned id with one that is not, whose
\* found record another delete removed first.
C9_Witness ==
  \E p \in Procs :
    /\ Answered(p, "bulk")
    /\ req[p].resp.status = 200
    /\ Len(req[p].files) < Len(req[p].body.fileIds)
    /\ req[p].resp.deletedCount < Len(req[p].files)

\* C10: a single delete that found an owned record, and whose metadata
\* store answers, ends with the record removed and a 200 response,
\* whatever subset of its per-key object deletions failed.
C10_DeleteSurvivesObjectFailures ==
  \A p \in Procs :
    Answered(p, "delete") /\ "file" \in DOMAIN req[p]
      /\ ~(req[p].resp.status = 500 /\ req[p].resp.error = "MongoError") =>
        /\ req[p].resp.status = 200
        /\ req[p].resp.message = "File deleted successfully"
        /\ \A d \in db : d._id # req[p].file._id

\* A delete of a record with a derivative answered 200 although the
\* deletion of every key threw.
C10_Witness ==
  \E p \in Procs :
    /\ Answered(p, "delete")
    /\ req[p].resp.status = 200
    /\ Len(req[p].s3Keys) = 2
    /\ req[p].failed = {1, 2}

\* Slot p takes, in this step, a request of kind op.
Takes(p, op) == pc[p] \in {"idle", "done"} /\ Acted(p) /\ req'[p].op = op

\* C11: a bulk delete whose id list has more than 100 entries, or an entry
\* that has not the shape of an identifier, is answered as a whole with its
\* validation error in the step that takes it: no lookup has run (the
\* answer does not depend on the metadata store), and no object and no
\* record is deleted.
C11_InvalidBulkRejectedFirst ==
  [][\A p \in Procs :
       LET ids == req'[p].body.fileIds
       IN  Takes(p, "bulk") /\ req'[p].user # NoUser
             /\ req'[p].body.isArray /\ Len(ids) > 0
             /\ (Len(ids) > 100 \/ \E i \in 1..Len(ids) : ids[i] <= 0)
           => /\ pc'[p] = "done"
              /\ req'[p].resp.status = 400
              /\ req'[p].resp.error =
                   IF Len(ids) > 100 THEN "TOO_MANY_FILES" ELSE "INVALID_FILE_IDS"
              /\ "files" \notin DOMAIN req'[p]
              /\ db' = db
              /\ store' = store]_vars

\* A list with a malformed id was rejected although its other id names a
\* stored record of the requester.
C11_Witness ==
  \E p \in Procs :
    /\ Answered(p, "bulk")
    /\ req[p].resp.status = 400
    /\ req[p].resp.error = "INVALID_FILE_IDS"
    /\ req[p].resp.invalidIds = <<0>>
    /\ \E d \in db : d._id = 1 /\ d.uploadedBy = req[p].user /\ Holds(d.s3Key)

\* The page arithmetic of lines 227-247 on 15 matches, page 2, limit 10:
\* 5 items and no next page.
PageExample ==
  /\ Len(Page([i \in 1..15 |-> i], (2 - 1) * 10, 10)) = 5
  /\ ~(2 < CeilDiv(15, 10))

\* C12: a search matching T records of the requester with effective page p
\* and limit L answers min(L, max(0, T - (p-1)*L)) items, currentPage p,
\* hasNextPage exactly when p*L < T and hasPreviousPage exactly when p > 1.
C12_PageArithmetic ==
  \A p \in Procs :
    Answered(p, "search") /\ req[p].resp.status = 200 =>
      LET T    == Cardinality(Matching(req[p].user, req[p].q))
          page == PageNum(req[p].q.page).v
          L    == LimitNum(req[p].q.limit).v
          resp == req[p].resp
      IN  /\ Len(resp.items) = Min(L, Max(0, T - (page - 1) * L))
          /\ resp.pagination.currentPage = page
          /\ resp.pagination.hasNextPage <=> page * L < T
          /\ resp.pagination.hasPreviousPage <=> page > 1
          /\ PageExample

\* Three matches, page 2 of limit 2: one item, no next page.
C12_Witness ==
  \E p \in Procs :
    /\ Answered(p, "search")
    /\ req[p].resp.status = 200
    /\ Cardinality(Matching(req[p].user, req[p].q)) = 3
    /\ req[p].q.page = "2" /\ req[p].q.limit = "2"
    /\ Len(req[p].resp.items) = 1
    /\ ~req[p].resp.pagination.hasNextPage

\* C13: for every search request, whatever page and limit the client
\* supplies, the effective page is an integer at least 1 and the effective
\* limit an integer in 1..100, with page 1 and limit 20 when the parameter
\* is absent.
C13_PageAndLimitClamped ==
  \A p \in Procs :
    req[p].op = "search" /\ req[p].user # NoUser =>
      LET page  == PageNum(req[p].q.page)
          limit == LimitNum(req[p].q.limit)
      IN  /\ ~page.nan /\ page.v >= 1
          /\ ~limit.nan /\ limit.v \in 1..100
          /\ req[p].q.page = "undefined" => page.v = 1
          /\ req[p].q.limit = "undefined" => limit.v = 20

\* The requester's records whose stored filename contains the text of q
\* case-insensitively and that pass the other filters of q.
FilenameMatches(userId, q) ==
  {d \in db : /\ MatchesFilter(d, userId, With(q, "query", <<>>))
              /\ Contains(ToLowerCase(d.filename), ToLowerCase(q.query))}

\* C14: a search with a text query returns exactly the requester's records
\* whose stored filename contains the text case-insensitively, intersected
\* with the other filters: it counts them all, lists none but them, and
\* lists them all when they fit in the page.
C14_TextSearchFindsFilename ==
  \A p \in Procs :
    Answered(p, "search") /\ req[p].resp.status = 200 /\ req[p].q.query # <<>> =>
      LET expected == FilenameMatches(req[p].user, req[p].q)
          resp     == req[p].resp
      IN  /\ resp.pagination.totalCount = Cardinality(expected)
          /\ Range(resp.items) \subseteq expected
          /\ (resp.pagination.currentPage = 1
                /\ Cardinality(expected) <= resp.pagination.limit)
               => Range(resp.items) = expected

\* The requester of the request slot p takes owns no record with its id.
NothingOwnedAt(p) ==
  /\ req'[p].user # NoUser
  /\ req'[p].fileId > 0
  /\ \A d \in db : d._id = req'[p].fileId => d.uploadedBy # req'[p].user

\* C15: a single delete or a get-by-id for a well-formed id under which
\* the requester owns no record has the same outcome whether no record has
\* that id or another owner's record has it: it is answered in one step
\* with 404 FILE_NOT_FOUND (or with the handler's 500 when the lookup
\* itself fails), and neither store changes.
C15_AbsentAndForeignAlike ==
  [][\A p \in Procs :
       (Takes(p, "delete") \/ Takes(p, "get")) /\ NothingOwnedAt(p) =>
         /\ pc'[p] = "done"
         /\ req'[p].resp \in
              {[status |-> 404, error |-> "FILE_NOT_FOUND"],
               [status |-> 500, error |-> "MongoError",
                message |-> IF req'[p].op = "delete" THEN "Delete failed"
                            ELSE "Failed to retrieve file"]}
         /\ db' = db
         /\ store' = store]_vars

\* One owner was answered 404 for the id of a record the other owner
\* holds, and a request for an id no record has was answered 404 too.
C15_Witness ==
  \E p, q \in Procs :
    /\ Answered(p, "delete") /\ req[p].resp.status = 404
    /\ \E d \in db : d._id = req[p].fileId /\ d.uploadedBy # req[p].user
    /\ Answered(q, "get") /\ req[q].resp.status = 404
    /\ \A d \in db : d._id # req[q].fileId

\* Slot p has answered an upload with a failure.
FailedUpload(p) == Answered(p, "upload") /\ req[p].resp.status # 201

\* The failure case of a failed upload r, from what the request did.
FailureCase(r) ==
  IF r.user = NoUser THEN "missing owner"
  ELSE IF ~r.file.present THEN "missing payload"
  ELSE IF r.file.size > 104857600 THEN "oversized payload"
  ELSE IF ResolvedCategory(r.file) \notin {"image", "video", "audio"}
  THEN "unsupported category"
  ELSE IF r.puts = <<>> THEN "derivative failure"
  ELSE IF ~Holds(r.puts[Len(r.puts)]) THEN "object-store write failure"
  ELSE "metadata-insert failure"

\* The error kind of a response: the code under error of a 4xx answer; a
\* 500 answer of the catch block has none of its own, only the fixed
\* message (its error field is the text of whatever exception was caught).
ErrorKind(resp) ==
  IF resp.status = 500 THEN resp.message ELSE resp.error

\* C16: two failed uploads of different failure cases (missing owner,
\* missing payload, oversized payload, unsupported category, object-store
\* write failure, metadata-insert failure) carry different error kinds.
C16_FailureKindsDistinct ==
  \A p, q \in Procs :
    FailedUpload(p) /\ FailedUpload(q)
      /\ FailureCase(req[p]) # FailureCase(req[q])
      => ErrorKind(req[p].resp) # ErrorKind(req[q].resp)

\* The key slot p is putting.
PuttingKey(p) ==
  IF pc[p] = "putOriginal" THEN req[p].s3Key ELSE req[p].previewKey

\* C17: when a put of uploadFile fails, of the original or of the
\* derivative after the original was stored, the request ends in that step
\* with an error response and without a record for the upload; when it is
\* the put of the original that fails, neither store holds anything of the
\* upload.
C17_PutFailureAborts ==
  [][\A p \in Procs :
       pc[p] \in {"putOriginal", "putPreview"} /\ Acted(p)
         /\ Obj(CompBucket, PuttingKey(p)) \notin store' =>
         /\ pc'[p] = "done"
         /\ req'[p].resp.status = 500
         /\ db' = db
         /\ store' = store
         /\ \A d \in db' : d.s3Key # req[p].s3Key
         /\ pc[p] = "putOriginal" =>
              \A o \in store' : o.key \notin {req[p].s3Key, req[p].previewKey}]_vars

\* The put of a derivative failed after the original was stored: the
\* upload was answered 500 and has no record.
C17_Witness ==
  \E p \in Procs :
    /\ Answered(p, "upload")
    /\ req[p].resp.status = 500
    /\ Len(req[p].puts) = 2
    /\ Holds(req[p].puts[1])
    /\ ~Holds(req[p].puts[2])
    /\ \A d \in db : d.s3Key # req[p].s3Key

\* The request slot p holds after this step is a bulk delete of an
\* authenticated owner with 1 to 100 ids, all of them well-formed.
WellFormedBulk(p) ==
  /\ req'[p].op = "bulk"
  /\ req'[p].user # NoUser
  /\ req'[p].body.isArray
  /\ Len(req'[p].body.fileIds) \in 1..100
  /\ \A i \in 1..Len(req'[p].body.fileIds) : req'[p].body.fileIds[i] > 0

\* The records the requester of that request owns under its ids.
OwnedAmong(p) ==
  {d \in db : d._id \in Range(req'[p].body.fileIds) /\ d.uploadedBy = req'[p].user}

\* C18 as stated: a bulk delete of well-formed ids of which some or all are
\* not found or not owned completes without an error response (the 500 of
\* a failing metadata store aside).
C18_MissingIdsNoError ==
  \A p \in Procs :
    Answered(p, "bulk") /\ req[p].body.isArray
      /\ Len(req[p].body.fileIds) \in 1..100
      /\ (\A i \in 1..Len(req[p].body.fileIds) : req[p].body.fileIds[i] > 0)
      /\ req[p].resp.status # 500
      => req[p].resp.status = 200

\* C18 as amended: a bulk delete of well-formed ids of which at least one
\* names a record of the requester goes on with exactly those records, the
\* other ids left out without an error, and its answer is 200 with those
\* records as deletedFiles; when none of the ids names a record of the
\* requester it is answered 404 NO_FILES_FOUND and nothing is deleted.
\* (Either way a failing metadata store is answered 500.)
C18_MissingIdsLeftOut ==
  [][\A p \in Procs :
       /\ Takes(p, "bulk") /\ WellFormedBulk(p) =>
            /\ db' = db /\ store' = store
            /\ IF OwnedAmong(p) = {}
               THEN /\ pc'[p] = "done"
                    /\ req'[p].resp \in
                         {[status |-> 404, error |-> "NO_FILES_FOUND"],
                          [status |-> 500, error |-> "MongoError",
                           message |-> "Bulk delete failed"]}
               ELSE \/ pc'[p] = "deleteChunks" /\ Range(req'[p].files) = OwnedAmong(p)
                    \/ pc'[p] = "done" /\ req'[p].resp.status = 500
       /\ pc[p] = "deleteMany" /\ pc'[p] = "done" =>
            /\ req'[p].resp.status \in {200, 500}
            /\ req'[p].resp.status = 200 =>
                 req'[p].resp.deletedFiles =
                   [i \in 1..Len(req[p].files) |-> FileSummary(req[p].files[i])]]_vars

\* A bulk delete of two ids, one of them of no record of the requester,
\* answered 200 with the one record it found.
C18_Witness ==
  \E p \in Procs :
    /\ Answered(p, "bulk")
    /\ req[p].resp.status = 200
    /\ Len(req[p].body.fileIds) = 2
    /\ Len(req[p].resp.deletedFiles) = 1
    /\ req[p].resp.deletedCount = 1

\* C19: uploadFile checks, in this order, the owner, the payload and the
\* size; an upload of more than 104857600 bytes is answered with the
\* too-large error in the step that takes it, before any probing, key,
\* object-store write or record insert, and one of exactly 104857600 bytes
\* is not.
C19_OversizeRejectedFirst ==
  [][\A p \in Procs :
       Takes(p, "upload") =>
         LET r == req'[p]
         IN  IF r.user = NoUser
             THEN pc'[p] = "done" /\ r.resp = [status |-> 401, error |-> "UNAUTHORIZED"]
             ELSE IF ~r.file.present
             THEN pc'[p] = "done" /\ r.resp = [status |-> 400, error |-> "NO_FILE"]
             ELSE IF r.file.size > 104857600
             THEN /\ pc'[p] = "done"
                  /\ r.resp = [status |-> 400, error |-> "FILE_TOO_LARGE"]
                  /\ DOMAIN r = {"op", "user", "file", "puts", "resp"}
                  /\ r.puts = <<>>
                  /\ nextUuid' = nextUuid
                  /\ store' = store
                  /\ db' = db
             ELSE pc'[p] = "done" => r.resp.error \notin {"FILE_TOO_LARGE", "NO_FILE",
                                                         "UNAUTHORIZED"}]_vars

\* An upload of 104857601 bytes by an authenticated owner was answered
\* with the too-large error while the stores are as they were.
C19_Witness ==
  \E p \in Procs :
    /\ Answered(p, "upload")
    /\ req[p].user # NoUser
    /\ req[p].file.present
    /\ req[p].file.size = 104857601
    /\ req[p].resp.error = "FILE_TOO_LARGE"
    /\ req[p].puts = <<>>

\* C20: a video upload for which generateVideoPoster and then
\* extractVideoThumbnail both fail is treated as having no derivative: with
\* the stores answering, the original is written, the record inserted with
\* preview equal to src, and the answer is 201.
C20_VideoWithoutDerivativeStored ==
  \A p \in Procs :
    Answered(p, "upload") /\ req[p].user # NoUser /\ req[p].file.present
      /\ req[p].file.size <= 104857600
      /\ ResolvedCategory(req[p].file) = "video"
      /\ ~req[p].file.poster /\ ~req[p].file.thumb
      /\ ~(req[p].resp.status = 500 /\ req[p].resp.error \in {"S3Error", "MongoError"})
      => /\ Stored(p)
         /\ Holds(req[p].s3Key)
         /\ req[p].puts = <<req[p].s3Key>>
         /\ req[p].resp.doc.preview = req[p].resp.doc.src

\* C21: in a single delete, deleteOne is issued only after the object
\* delete of every reconstructed key has settled, each as a success (the
\* object is gone) or as a failure, and the deletedKeys of the 200 answer
\* are exactly the keys a delete was issued for, those reconstructed from
\* the record.
C21_DeleteOneAfterAllKeysSettled ==
  [][\A p \in Procs :
       /\ pc[p] = "deleteObjects" /\ Acted(p) =>
            \E i \in req[p].pending :
              /\ req'[p].pending = req[p].pending \ {i}
              /\ \/ req'[p].failed = req[p].failed \cup {i} /\ store' = store
                 \/ /\ req'[p].failed = req[p].failed
                    /\ Obj(CompBucket, req[p].s3Keys[i]) \notin store'
              /\ pc'[p] = "deleteOne" <=> req'[p].pending = {}
              /\ db' = db
       /\ pc[p] = "deleteOne" /\ Acted(p) =>
            /\ req[p].pending = {}
            /\ req[p].s3Keys = getS3KeysForFile(req[p].file)
            /\ req'[p].resp.status = 200 =>
                 req'[p].resp.deletedFile.deletedKeys = req[p].s3Keys
       /\ pc[p] \notin {"deleteOne", "deleteMany"} /\ Acted(p) => db \subseteq db']_vars

\* A delete of a record with two reconstructed keys answered 200 after
\* the first key's delete succeeded and the second's failed.
C21_Witness ==
  \E p \in Procs :
    /\ Answered(p, "delete")
    /\ req[p].resp.status = 200
    /\ Len(req[p].resp.deletedFile.deletedKeys) = 2
    /\ req[p].failed = {2}
    /\ req[p].pending = {}

\* The confirmed-deleted counts of the batches that returned, added up.
RECURSIVE ConfirmedTotal(_, _)
ConfirmedTotal(results, n) ==
  IF n = 0 THEN 0 ELSE results[n].Deleted + ConfirmedTotal(results, n - 1)

\* C22: a bulk delete submits its keys in batches of at most 1000, one
\* after the other; a batch whose call throws adds nothing to
\* s3ObjectsDeleted and stops neither the later batches nor deleteMany;
\* deleteMany runs only after every batch was attempted; and
\* s3ObjectsDeleted is the sum of the confirmed-deleted counts of the
\* batches that returned, whatever deletedCount is.
C22_BatchesThenDeleteMany ==
  [][\A p \in Procs :
       /\ pc[p] = "deleteChunks" /\ Acted(p) =>
            LET r    == req[p]
                size == Min(1000, Len(r.allS3Keys) - r.i)
            IN  /\ size \in 1..1000
                /\ req'[p].i = r.i + size \/ req'[p].i = r.i + 1000
                /\ db' = db
                /\ \/ /\ req'[p].thrown = r.thrown + 1
                       /\ req'[p].deleteResults = r.deleteResults
                       /\ store' = store
                   \/ /\ req'[p].thrown = r.thrown
                       /\ Len(req'[p].deleteResults) = Len(r.deleteResults) + 1
                       /\ LET last == req'[p].deleteResults[Len(req'[p].deleteResults)]
                          IN  /\ last.Deleted + last.Errors = size
                              /\ Cardinality(store \ store') <= last.Deleted
                /\ pc'[p] = IF r.i + 1000 < Len(r.allS3Keys)
                            THEN "deleteChunks" ELSE "deleteMany"
       /\ pc[p] = "deleteMany" /\ Acted(p) =>
            LET r == req[p]
            IN  /\ r.i >= Len(r.allS3Keys)
                /\ r.thrown + Len(r.deleteResults) = (Len(r.allS3Keys) + 999) \div 1000
                /\ req'[p].resp.status = 200 =>
                     req'[p].resp.s3ObjectsDeleted =
                       ConfirmedTotal(r.deleteResults, Len(r.deleteResults))]_vars

\* A bulk delete whose only batch threw was answered 200 with no object
\* confirmed deleted and one record removed.
C22_Witness ==
  \E p \in Procs :
    /\ Answered(p, "bulk")
    /\ req[p].resp.status = 200
    /\ req[p].thrown = 1
    /\ req[p].resp.s3ObjectsDeleted = 0
    /\ req[p].resp.deletedCount = 1

\* C23: when the metadata insert fails after the object-store writes of an
\* upload succeeded, the upload answers an error, no record is created, and
\* the objects it wrote stay in the object store: the handler ends there,
\* without a compensating delete, and no step of an upload removes an object.
C23_FailedInsertLeavesOrphans ==
  [][\A p \in Procs :
       /\ pc[p] = "insert" /\ Acted(p) /\ req'[p].resp.status # 201 =>
            /\ req'[p].resp.status = 500
            /\ req'[p].resp.message = "Upload failed"
            /\ pc'[p] = "done"
            /\ db' = db
            /\ req[p].puts # <<>>
            /\ \A i \in 1..Len(req[p].puts) :
                 /\ Obj(CompBucket, req[p].puts[i]) \in store'
                 /\ \A d \in db' : /\ d.s3Key # req[p].puts[i]
                                   /\ d.preview # UrlOf(req[p].puts[i])
       /\ req[p].op = "upload" /\ pc[p] \notin {"idle", "done"} /\ Acted(p) =>
            \A o \in store : o \in store' \/ \E q \in Procs \ {p} : Acted(q)]_vars

\* An upload of a large image was answered 500 after its insert failed,
\* with its original and its preview in the object store and no record.
C23_Witness ==
  \E p \in Procs :
    /\ FailedUpload(p)
    /\ req[p].resp.status = 500
    /\ Len(req[p].puts) = 2
    /\ \A i \in 1..2 : Holds(req[p].puts[i])
    /\ db = {}

\* The temporary files the call of slot p created that still exist.
LeftBy(p) == {f \in tmpFiles : f.by = req[p].call}

TempPaths(p) ==
  IF pc[p] \in {"idle", "done"} THEN {}
  ELSE IF req[p].op = "probe" THEN {req[p].tempFile}
  ELSE IF req[p].op = "poster" THEN {req[p].tempInputPath, req[p].tempOutputPath}
  ELSE {}

\* C25: two uploads in flight at the same time never work on the same
\* temporary file path, so neither overwrites, reads or unlinks a file the
\* other created, also when both start within the same millisecond.
C25_NoSharedTempPath ==
  \A p, q \in Procs :
    p # q => /\ TempPaths(p) \cap TempPaths(q) = {}
             /\ \A f \in tmpFiles :
                  f.path \in TempPaths(p) => f.by = req[p].call

\* The bucket the next object-store delete of slot p names, if p stands at
\* one: env.S3_COMP_BUCKET_BKT in deleteFile, process.env.S3_BUCKET_NAME in
\* bulkDeleteFiles.
DeleteTargets(p) ==
  IF pc[p] = "deleteObjects" THEN {CompBucket}
  ELSE IF pc[p] = "deleteChunks" THEN {bulkBucket}
  ELSE {}

\* C26: every object-store delete that single delete and bulk delete issue
\* names the bucket that uploadToS3 writes to.
C26_DeletesTargetUploadBucket ==
  \A p \in Procs : DeleteTargets(p) \subseteq {CompBucket}

\* The first token of a MIME type when it has the shape <prefix>/..., else "".
MimePrefix(m) == IF Len(m) >= 2 /\ m[2] = "/" THEN m[1] ELSE ""

\* The listed extension groups, by the last dot-separated part in lower case.
TableCategory(filename) ==
  LET e == FileExt(filename)
  IN  CASE e \in {"jpg", "jpeg", "png", "gif", "webp", "bmp", "tiff", "svg"} -> "image"
        [] e \in {"mp4", "avi", "mov", "wmv", "flv", "webm", "mkv", "3gp"} -> "video"
        [] e \in {"mp3", "wav", "ogg", "flac", "aac", "m4a", "wma"} -> "audio"
        [] e \in {"pdf", "doc", "docx", "txt", "rtf", "xls", "xlsx", "ppt", "pptx"}
             -> "document"
        [] OTHER -> "other"

IsDocumentMime(m) ==
  \/ MimePrefix(m) = "text"
  \/ /\ MimePrefix(m) = "application" /\ Len(m) >= 3
     /\ \/ m[3] \in {"pdf", "msword"}
        \/ Len(m) >= 5 /\ SubSeq(m, 3, 5) = <<"vnd", ".", "openxmlformats">>

\* C27: getFileType returns a category for every input and follows the
\* rule order: an image/, video/ or audio/ MIME type gives that category
\* whatever the filename; application/octet-stream with a filename gives the
\* category of the extension table, other for an unlisted extension; the
\* known document MIME types and text/* give document; everything else,
\* octet-stream without a filename included, gives other.
C27_GetFileTypeRuleOrder ==
  \A p \in Procs :
    Answered(p, "getFileType") =>
      LET m == req[p].mimeType
          f == req[p].filename
          t == req[p].ret
      IN  /\ t \in {"image", "video", "audio", "document", "other"}
          /\ t = IF MimePrefix(m) \in {"image", "video", "audio"} THEN MimePrefix(m)
                 ELSE IF m = OctetStream /\ f # <<>> THEN TableCategory(f)
                 ELSE IF IsDocumentMime(m) THEN "document"
                 ELSE "other"

\* getFileType has answered image for image/png with a video filename and
\* document for octet-stream with a .pdf filename.
C27_Witness ==
  \E p, q \in Procs :
    /\ Answered(p, "getFileType") /\ Answered(q, "getFileType")
    /\ req[p].mimeType = Png /\ req[p].filename = <<"clip", ".", "mp4">>
    /\ req[p].ret = "image"
    /\ req[q].mimeType = OctetStream /\ req[q].filename = <<"report", ".", "pdf">>
    /\ req[q].ret = "document"

\* The keys that uploads wrote for logical files other than those in ids.
KeysOfOthers(ids) == UNION {w.keys : w \in {v \in wrote : v.id \notin ids}}

\* The keys the delete in slot p issues object-store deletes for, and the
\* logical files it deletes.
IssuedKeys(p) ==
  IF req[p].op = "delete" THEN Range(req[p].s3Keys) ELSE Range(req[p].allS3Keys)
DeletedIds(p) ==
  IF req[p].op = "delete" THEN {req[p].file._id}
  ELSE {req[p].files[i]._id : i \in 1..Len(req[p].files)}

\* C28: a single or bulk delete never issues an object-store delete for a
\* key that an upload wrote as the primary, preview or poster key of a
\* logical file the request does not delete, whatever the owners, dates,
\* file ids and filenames, those with "-" or "/" included.
C28_DeleteSparesOtherFiles ==
  \A p \in Procs :
    pc[p] \in {"deleteObjects", "deleteOne", "deleteChunks", "deleteMany"} =>
      IssuedKeys(p) \cap KeysOfOthers(DeletedIds(p)) = {}

\* A file named a/b-c.jpg was deleted by itself while another file of the
\* same owner and day, written with two keys, was on record.
C28_Witness ==
  \E p \in Procs :
    /\ Answered(p, "delete") /\ req[p].resp.status = 200
    /\ req[p].file.filename = <<"a", "/", "b", "-", "c", ".", "jpg">>
    /\ Len(req[p].s3Keys) = 2
    /\ \E d \in db, w \in wrote :
         /\ w.id = d._id /\ Cardinality(w.keys) = 2
         /\ d.uploadedBy = req[p].user
         /\ d.uploadedAt = req[p].file.uploadedAt

\* C29: of two concurrent single deletes of the same owned record, at most
\* one answers 200 'File deleted successfully'.
C29_OneDeleteSucceeds ==
  \A p, q \in Procs :
    /\ p # q
    /\ Answered(p, "delete") /\ req[p].resp.status = 200
    /\ Answered(q, "delete") /\ req[q].resp.status = 200
    => req[p].resp.deletedFile._id # req[q].resp.deletedFile._id

\* C30: the JSON body parser runs before the bulk-delete handler, so an
\* authenticated POST /v1/uploads/bulk-delete with a JSON body reaches
\* bulkDeleteFiles with req.body parsed and is answered by the handler's
\* validation or deletion logic, never by a failure to read fileIds.
C30_BodyParsedBeforeBulkDelete ==
  \A p \in Procs :
    req[p].op = "bulk" /\ req[p].user # NoUser =>
      /\ req[p].body # Unparsed
      /\ pc[p] = "done" => "unhandled" \notin DOMAIN req[p].resp
====
